---- MODULE Spec2Model ----
(***************************************************************************)
(* The scale-to-print pipeline of label.py: the serial worker thread, the  *)
(* ordered hand-off of its callbacks to the Tk control context, the        *)
(* stability tracker, the auto-print coordinator, manual printing and the  *)
(* print dispatch with its bounded retries.                                *)
(*                                                                         *)
(* Weights.  A reading is a float parsed from a serial line.  It is        *)
(* modelled as an integer number of 0.00001 kg ("raw" units); the text     *)
(* f"{value:.4f}" is modelled as a record holding the sign that Python     *)
(* prints and the magnitude in 0.0001 kg, rounded as Python rounds the     *)
(* binary float nearest to the decimal value.                              *)
(*                                                                         *)
(* Control context.  Tk runs one handler at a time.  A handler that opens  *)
(* a modal messagebox stays on the call stack while the dialog's nested    *)
(* event loop delivers the callbacks queued by the worker; subprocess.run  *)
(* and time.sleep block the control context without delivering anything.   *)
(* stack holds the print handlers that are on the call stack.              *)
(***************************************************************************)
EXTENDS Integers, Sequences, FiniteSets, TLC

-----------------------------------------------------------------------------
(* Bounds of the model *)

\* callbacks queued by the worker and not yet run by the control context
MaxQueue == 1

\* the same, where the hand-off of the worker is studied on its own
MaxPending == 2

\* cap on same_value_iterations
MaxCount == 2

\* runs of the print CLI whose outcome is given for one dispatch; one more
\* than the dispatch may use
MaxCliRuns == 5

\* characters of a text handed to sanitize_filename_part
MaxText == 4

\* print jobs in a row whose label paths are followed
MaxJobs == 3

\* the items of a label field config list
MaxEntries == 3

\* the items of the config list of a label that is composed
MaxLines == 2

\* compositions of the same label that are followed
MaxCompositions == 2

\* bytes of a raw serial line, for the lines of every make
MaxLine == 3

\* characters of the text of the "Stable iterations" spinbox
MaxSpin == 3

\* cap on stable_count of scale.py; one more than the count it prints at
MaxReadings == 11

-----------------------------------------------------------------------------
(* Program constants *)

SCALE_DEFAULT_STABLE_ITERATIONS == 10

\* 0.01 kg, in units of 0.0001 kg
MIN_PRINT_WEIGHT_KG == 100

PRINT_RETRY_ATTEMPTS == 4

\* of scale.py
STABLE_ITERATIONS == 10

DEFAULT_LABEL_LINE_SPACING == 8

\* 0.35 s, in units of 0.01 s
PRINT_RETRY_BASE_DELAY_SECONDS == 35

-----------------------------------------------------------------------------
(* Texts and numbers *)

\* readings the scale sends, in units of 0.00001 kg:
\* -0.5, 0.005, 1.00001 and 1.00002 kg (the last two print as "1.0000")
RawValues == {-50000, 500, 100001, 100002}

\* Python's None, for the three tracker fields that hold a text or None
None == [kind |-> "none", neg |-> FALSE, mag |-> 0]

\* the text "" the weight variable is created with
EmptyText == [kind |-> "empty", neg |-> FALSE, mag |-> 0]

\* the text "n/a" shown while the scale is offline
NAText == [kind |-> "na", neg |-> FALSE, mag |-> 0]

Abs(n) == IF n < 0 THEN -n ELSE n

\* floor(log2(num / den)) of two positive integers: the binary exponent of
\* the float nearest to num / den
RECURSIVE Log2Floor(_, _)
Log2Floor(num, den) ==
    IF num >= den
    THEN IF num >= 2 * den THEN 1 + Log2Floor(num, 2 * den) ELSE 0
    ELSE Log2Floor(2 * num, den) - 1

\* (x * 2^k) % modulus, for x < modulus <= 100000
RECURSIVE ShiftMod(_, _, _)
ShiftMod(x, k, modulus) ==
    IF k < 14 THEN (2^k * x) % modulus
    ELSE ShiftMod((16384 * x) % modulus, k - 14, modulus)

\* float(text) of a decimal text that denotes mag / unit, mag > 0: whether
\* the float, which has a 53-bit mantissa, is "below", "above" or "exact".
\* The mantissa is mag * 2^e / unit rounded to an integer, with e such that
\* it has 53 bits; the remainder of that division tells which way it went.
FloatError(mag, unit) ==
    LET rem == ShiftMod(mag % unit, 52 - Log2Floor(mag, unit), unit)
    IN  IF rem = 0 THEN "exact"
        ELSE IF 2 * rem < unit THEN "below"
        ELSE "above"

\* the digits f"{value:.Nf}" prints for the float of mag / unit, step being
\* the units of one last digit: the float is rounded correctly, a float
\* that is exactly half way to the even digit
RoundFloat(mag, unit, step) ==
    LET digits == mag \div step
        rest == mag % step
        up == IF 2 * rest # step THEN 2 * rest > step
              ELSE IF FloatError(mag, unit) = "exact" THEN digits % 2 = 1
              ELSE FloatError(mag, unit) = "above"
    IN  IF up THEN digits + 1 ELSE digits

\* f"{value:.4f}" of the float of raw / 100000: the sign of the value and
\* the magnitude rounded to 4 decimals
Format4(raw) ==
    [kind |-> "num",
     neg  |-> raw < 0,
     mag  |-> RoundFloat(Abs(raw), 100000, 10)]

\* the absent float
NoFloat == [some |-> FALSE, val |-> 0]

\* parse_decimal: the float a text denotes (in 0.0001 kg), or None
parse_decimal(text) ==
    IF text.kind = "num"
    THEN [some |-> TRUE, val |-> IF text.neg THEN -text.mag ELSE text.mag]
    ELSE NoFloat

\* weight_text of update_preview: "" when the text is no number, else the
\* number formatted with 4 decimals again
WeightText(text) ==
    LET current_weight == parse_decimal(text)
    IN  IF ~current_weight.some THEN EmptyText
        ELSE [kind |-> "num",
              neg  |-> text.neg,
              mag  |-> Abs(current_weight.val)]

\* what str.strip() removes at both ends
Whitespace == {" "}

RECURSIVE LStrip(_, _)
LStrip(text, chars) ==
    IF text # << >> /\ Head(text) \in chars
    THEN LStrip(Tail(text), chars)
    ELSE text

RECURSIVE RStrip(_, _)
RStrip(text, chars) ==
    IF text # << >> /\ text[Len(text)] \in chars
    THEN RStrip(SubSeq(text, 1, Len(text) - 1), chars)
    ELSE text

\* a strip that removes nothing
StripNothing(text, chars) == text

\* str.strip(chars)
Strip(text, chars) == RStrip(LStrip(text, chars), chars)

\* Natural numbers too large for one integer, for the arithmetic of floats: a
\* number is the sequence of its digits to the base 32768, lowest first, and
\* zero is the empty sequence.
Limb == 2 ^ 15

RECURSIVE BigOf(_)
BigOf(n) == IF n = 0 THEN << >> ELSE <<n % Limb>> \o BigOf(n \div Limb)

RECURSIVE BigToInt(_)
BigToInt(a) == IF a = << >> THEN 0 ELSE Head(a) + Limb * BigToInt(Tail(a))

\* a * m + carry, for 0 < m < Limb
RECURSIVE BigTimes(_, _, _)
BigTimes(a, m, carry) ==
    IF a = << >> THEN BigOf(carry)
    ELSE <<(Head(a) * m + carry) % Limb>>
             \o BigTimes(Tail(a), m, (Head(a) * m + carry) \div Limb)

\* a * 2^k
BigShift(a, k) == [i \in 1..(k \div 15) |-> 0] \o BigTimes(a, 2^(k % 15), 0)

\* a + b + carry
RECURSIVE BigAdd(_, _, _)
BigAdd(a, b, carry) ==
    IF a = << >> /\ b = << >> THEN BigOf(carry)
    ELSE IF a = << >> THEN BigAdd(b, a, carry)
    ELSE IF b = << >>
    THEN <<(Head(a) + carry) % Limb>>
             \o BigAdd(Tail(a), b, (Head(a) + carry) \div Limb)
    ELSE <<(Head(a) + Head(b) + carry) % Limb>>
             \o BigAdd(Tail(a), Tail(b), (Head(a) + Head(b) + carry) \div Limb)

\* a * b, for a and b above zero
RECURSIVE BigMul(_, _)
BigMul(a, b) ==
    IF Len(b) = 1 THEN BigTimes(a, b[1], 0)
    ELSE BigAdd(IF Head(b) = 0 THEN << >> ELSE BigTimes(a, Head(b), 0),
                <<0>> \o BigMul(a, Tail(b)), 0)

\* the digits of a without the zeros at its high end
RECURSIVE BigTrim(_)
BigTrim(a) ==
    IF a # << >> /\ a[Len(a)] = 0 THEN BigTrim(SubSeq(a, 1, Len(a) - 1))
    ELSE a

\* the quotient of a division from its digits below the highest and that digit
BigDivStep(rest, digit) == [q |-> Append(rest.q, digit), r |-> rest.r]

\* (rem * Limb^Len(a) + a) divided by d, for rem < d < Limb: the quotient
\* (not trimmed) and the remainder
RECURSIVE BigDiv(_, _, _)
BigDiv(a, d, rem) ==
    IF a = << >> THEN [q |-> << >>, r |-> rem]
    ELSE BigDivStep(BigDiv(SubSeq(a, 1, Len(a) - 1), d,
                           (rem * Limb + a[Len(a)]) % d),
                    (rem * Limb + a[Len(a)]) \div d)

\* floor(a / 2^k)
BigHalve(a, k) ==
    BigTrim(BigDiv(SubSeq(a, (k \div 15) + 1, Len(a)), 2^(k % 15), 0).q)

\* -1, 0 or 1 as a is below, equal to or above b
RECURSIVE BigCompare(_, _)
BigCompare(a, b) ==
    IF Len(a) # Len(b) THEN (IF Len(a) < Len(b) THEN -1 ELSE 1)
    ELSE IF a = << >> THEN 0
    ELSE IF a[Len(a)] # b[Len(b)]
    THEN (IF a[Len(a)] < b[Len(b)] THEN -1 ELSE 1)
    ELSE BigCompare(SubSeq(a, 1, Len(a) - 1), SubSeq(b, 1, Len(b) - 1))

\* the number of binary digits of a, a above zero
BigBits(a) == (Len(a) - 1) * 15 + Log2Floor(a[Len(a)], 1) + 1

\* floor, or floor + 1 when the rest that was cut off (cut: -1, 0 or 1 as it
\* is below, equal to or above a half) rounds up, a half to the even number
RoundedUp(floor, cut) ==
    IF cut > 0 \/ (cut = 0 /\ floor # << >> /\ floor[1] % 2 = 1)
    THEN BigAdd(floor, <<1>>, 0)
    ELSE floor

\* a / 2^k rounded to an integer
RoundShift(a, k) ==
    RoundedUp(BigHalve(a, k),
              BigCompare(BigShift(a, 1),
                         BigShift(BigAdd(BigShift(BigHalve(a, k), 1), <<1>>, 0),
                                  k)))

\* a / d rounded to an integer, for d < Limb
RoundDiv(a, d) ==
    RoundedUp(BigTrim(BigDiv(a, d, 0).q),
              IF 2 * BigDiv(a, d, 0).r < d THEN -1
              ELSE IF 2 * BigDiv(a, d, 0).r = d THEN 0
              ELSE 1)

\* float(text) of a decimal text that denotes mag / unit, mag > 0: the float
\* is m * 2^k / 2^e, m being mag * 2^e / unit rounded to the 53 binary
\* digits of the mantissa
FloatOf(mag, unit) ==
    [m |-> RoundDiv(BigShift(BigOf(mag), 52 - Log2Floor(mag, unit)), unit),
     k |-> 0,
     e |-> 52 - Log2Floor(mag, unit)]

\* the product of two floats: the product of the mantissas rounded to 53
\* binary digits
FloatProduct(x, y, product) ==
    [m |-> RoundShift(product, BigBits(product) - 53),
     k |-> x.k + y.k + BigBits(product) - 53,
     e |-> x.e + y.e]

FloatTimes(x, y) == FloatProduct(x, y, BigMul(x.m, y.m))

\* -1, 0 or 1 as the float z is below, equal to or above num / 100000000
FloatAgainst(z, num) ==
    BigCompare(BigShift(BigTimes(BigTimes(z.m, 10000, 0), 10000, 0), z.k),
               BigShift(num, z.e))

\* weight * price_per_kg of two floats parsed from texts that denote
\* w / 10000 and p / 10000: -1, 0 or 1 as the float product is below, equal
\* to or above w * p / 100000000
ProductError(w, p) ==
    FloatAgainst(FloatTimes(FloatOf(w, 10000), FloatOf(p, 10000)),
                 BigMul(BigOf(w), BigOf(p)))

\* the cents f"{total:.2f}" prints for total = weight * price_per_kg, the
\* floats of w / 10000 and p / 10000: the float product is rounded
\* correctly, a product that is exactly half way to the even digit
RoundProduct(w, p) ==
    IF w = 0 \/ p = 0 THEN 0
    ELSE LET x == BigDiv(BigMul(BigOf(w), BigOf(p)), 10000, 0)
             y == BigDiv(BigTrim(x.q), 100, 0)
             digits == BigToInt(BigTrim(y.q))
             rest == y.r * 10000 + x.r
             up == IF 2 * rest # 1000000 THEN 2 * rest > 1000000
                   ELSE IF ProductError(w, p) = 0 THEN digits % 2 = 1
                   ELSE ProductError(w, p) > 0
         IN  IF up THEN digits + 1 ELSE digits

\* update_total_price: the text it writes to total_price_var, "" or
\* f"{total:.2f}" (the magnitude held in units of 0.0001); the sign of a
\* float product is the product of the signs, also when it is zero
update_total_price(weight_text, price_text) ==
    LET weight == parse_decimal(weight_text)
        price_per_kg == parse_decimal(price_text)
    IN  IF ~weight.some \/ ~price_per_kg.some THEN EmptyText
        ELSE [kind |-> "num",
              neg  |-> weight_text.neg # price_text.neg,
              mag  |-> RoundProduct(Abs(weight.val), Abs(price_per_kg.val)) * 100]

\* the label inputs besides the weight: four Tk variables, one session
\* field and the line spacing of the label config
LabelInputs(cut_name, price_per_kg, tax, total_price, session, line_spacing) ==
    [cut_name |-> cut_name, price_per_kg |-> price_per_kg, tax |-> tax,
     total_price |-> total_price, session |-> session,
     line_spacing |-> line_spacing]

\* total_price_text and price_per_kg_text of update_preview: "" when the
\* text is no number, else the number formatted with 2 decimals
PriceText(text) ==
    LET price == parse_decimal(text)
    IN  IF ~price.some THEN EmptyText
        ELSE [kind |-> "num",
              neg  |-> text.neg,
              mag  |-> RoundFloat(Abs(price.val), 10000, 100) * 100]

\* update_preview: what build_label_image is given besides the weight, the
\* texts stripped and the prices formatted
PreviewValues(inputs) ==
    LabelInputs(Strip(inputs.cut_name, Whitespace),
                PriceText(inputs.price_per_kg),
                Strip(inputs.tax, Whitespace),
                PriceText(inputs.total_price),
                Strip(inputs.session, Whitespace),
                inputs.line_spacing)

\* the label inputs after LabelApp.__init__ when no default database and no
\* default session exist, and the image update_preview has composed of them
InitialLabelInputs ==
    LabelInputs(<< >>, EmptyText, << >>,
                update_total_price(EmptyText, EmptyText), << >>,
                DEFAULT_LABEL_LINE_SPACING)

\* a print without validation
UnderFloorNever(weight) == FALSE

\* the rejection test without the comparison against the floor
UnderFloorMissingOnly(weight) == ~weight.some

\* a rejection test that lets a missing weight through
UnderFloorNumberOnly(weight) ==
    /\ weight.some
    /\ Abs(weight.val) < MIN_PRINT_WEIGHT_KG

\* the rejection test of _trigger_auto_print and print_label:
\* weight is None or abs(weight) < MIN_PRINT_WEIGHT_KG
UnderFloor(weight) ==
    \/ ~weight.some
    \/ Abs(weight.val) < MIN_PRINT_WEIGHT_KG

\* texts the user sets the "Stable iterations" spinbox variable to: "0" and
\* "2" (valid is FALSE for a text int() rejects)
StableTexts ==
    { [valid |-> TRUE, n |-> 0],
      [valid |-> TRUE, n |-> 2] }

InitialStableText == [valid |-> TRUE, n |-> SCALE_DEFAULT_STABLE_ITERATIONS]

\* a count that is taken as it is configured
RequiredUnclamped(text) ==
    IF text.valid THEN text.n ELSE SCALE_DEFAULT_STABLE_ITERATIONS

\* get_required_stable_iterations, of the spinbox text
RequiredOf(text) ==
    LET value == IF text.valid THEN text.n ELSE SCALE_DEFAULT_STABLE_ITERATIONS
    IN  IF value > 1 THEN value ELSE 1

-----------------------------------------------------------------------------
(* State *)

VARIABLES
    \* worker thread
    wpc,                      \* position in _scale_monitor_worker
    ser_open,                 \* the worker holds an open serial handle
    scale_stop_event,
    after_pending,            \* the callback of the self.after call the worker
                              \* waits in, << >> when it waits in none
    queue,                    \* callbacks handed over with self.after(0, ...)
    \* control context
    scale_status_var,
    current_weight_var,
    last_scale_value,
    same_value_iterations,
    last_auto_printed_value,
    auto_print_in_progress,
    auto_print_enabled_var,
    stable_iterations_var,
    stack,                    \* print handlers on the call stack, innermost last
    closed,                   \* on_close has called destroy()
    preview_update_job,       \* an after(75, _run_preview_update) is pending
    current_label_image,      \* the weight text the cached label image shows
    \* one call of print_via_brother_cli on its own
    cli_runs,                 \* the outcomes the print CLI will give
    dispatch,                 \* the result of the call, NotDispatched before it
    \* the callbacks Tk lets wait at once in this behaviour; never changes
    queue_limit,
    \* the functions of the module called on their own.  The whole-application
    \* specifications do not track the label files, the font cache or the
    \* print log and leave these as they start; the label config file is
    \* written where the label config window is used.
    call,                     \* the call: the function and its arguments
    returned,                 \* what the call returned or raised
    printed_labels,           \* the files in PRINTED_LABELS_DIR
    FONT_CACHE,
    label_config_file,        \* the file at LABEL_CONFIG_PATH
    print_log,                \* the lines of the file at ANALYTICS_LOG_PATH
    \* main of scale.py, run on its own
    scale_loop,               \* its three locals and what the last pass did
    scale_run,                \* history: the current run of equal readings
    \* the label inputs besides the weight, and the cached label image
    label_inputs,             \* the texts of the Tk variables and the line spacing
    image_values,             \* what the cached label image was composed from
    \* history, not program state: the current run of readings with the same
    \* formatted value, counted from the last offline report; it ends when
    \* the application is closed
    run_value,                \* formatted value of the run, None before one
    run_len,                  \* readings of the run processed so far
    run_fires,                \* auto-prints started during the run (capped at 2)
    run_steady,               \* since the run began: option on, required count
                              \* unchanged, value >= 0.01 kg, no print failed and
                              \* no error dialog was open
    run_auto_failed,          \* an auto-print of the run ended in a fatal error
    run_rerun,                \* when the run began its value was acted_before
    run_switched_on,          \* the latest step of the control context
                              \* switched the option on, the count having
                              \* reached the required one
    acted_before              \* value of the latest auto-print the CLI printed

workerVars == <<wpc, ser_open, scale_stop_event, after_pending>>

trackerVars == <<last_scale_value, same_value_iterations, last_auto_printed_value>>

optionVars == <<auto_print_enabled_var, stable_iterations_var>>

previewVars == <<preview_update_job, current_label_image>>

dispatchVars == <<cli_runs, dispatch>>

scaleVars == <<scale_loop, scale_run>>

labelVars == <<label_inputs, image_values>>

\* what the application's handlers never touch
idleVars == <<call, returned, FONT_CACHE, label_config_file, scaleVars>>

functionVars == <<call, returned, printed_labels, FONT_CACHE,
                 label_config_file, print_log, scaleVars>>

studyVars == <<functionVars, labelVars>>

historyVars == <<run_value, run_len, run_fires, run_steady, run_auto_failed,
                run_rerun, acted_before>>

runVars == <<historyVars, run_switched_on>>

vars == <<wpc, ser_open, scale_stop_event, after_pending, queue,
          scale_status_var, current_weight_var,
          last_scale_value, same_value_iterations, last_auto_printed_value,
          auto_print_in_progress, auto_print_enabled_var, stable_iterations_var,
          stack, closed, preview_update_job, current_label_image,
          cli_runs, dispatch, queue_limit, studyVars,
          run_value, run_len, run_fires, run_steady, run_auto_failed,
          run_rerun, run_switched_on, acted_before>>

get_required_stable_iterations == RequiredOf(stable_iterations_var)

\* a print handler on the call stack
\*   kind      "auto" (_on_live_scale_value -> _trigger_auto_print) or
\*             "manual" (on_print)
\*   pc        "attempt": inside the retry loop of print_via_brother_cli
\*             "dlg_log": in the "Printed, but log save failed" dialog
\*             "dlg_err": in the "Print error" dialog of on_print or the
\*                        "Auto print error" dialog of _trigger_auto_print
\*             "dlg_busy": in the "Printer busy" dialog of on_print
\*   attempt   the loop variable of the retry loop, 0 outside it
\*   formatted the local of _on_live_scale_value, None for a manual print
\*   weight    the local of print_label that names the label file
\*   image     the weight text of the image print_label hands to
\*             send_to_printer
\*   root      the Tk root of the handler's message boxes, which are opened
\*             without parent=: "app", the application, which is the
\*             default root until destroy(), or "temp", the temporary root
\*             tkinter makes for a dialog when there is no default root
\* weight and image are not read again once the retry loop is left; they
\* are kept only while pc = "attempt" (NoFloat and None otherwise).
Frame(kind, pc, formatted, weight, image) ==
    [kind |-> kind, pc |-> pc, attempt |-> IF pc = "attempt" THEN 1 ELSE 0,
     formatted |-> formatted, weight |-> weight, image |-> image,
     root |-> IF closed THEN "temp" ELSE "app"]

Top == stack[Len(stack)]

Pop == SubSeq(stack, 1, Len(stack) - 1)

\* the positions of a print handler in which it shows a modal dialog
Dialogs == {"dlg_log", "dlg_err", "dlg_busy"}

\* the dialogs of a print that failed or was turned down
ErrorDialogs == {"dlg_err", "dlg_busy"}

\* on_close is running: it has set the stop flag, which nothing else sets,
\* and has not yet called destroy()
Closing == scale_stop_event /\ ~closed

\* the dialog of the innermost print handler was open on the application
\* when on_close destroyed it: the wait of the message box has ended
EndedDialog ==
    /\ closed
    /\ stack # << >>
    /\ Top.pc \in Dialogs
    /\ Top.root = "app"

\* an event loop that also runs while the print CLI is being run
PumpingWhilePrinting ==
    /\ ~Closing
    /\ IF stack = << >> THEN ~closed ELSE ~EndedDialog

\* the control context is in an event loop: mainloop, or the nested loop of
\* a modal dialog; it is in none while a print handler runs the print CLI
\* or sleeps between two runs, and while on_close runs.  destroy() ends
\* mainloop and the dialogs that were open on the application; a dialog a
\* print handler opens after it runs its loop on a temporary root, and
\* that loop serves the calls of the worker thread and the timers as any
\* other.
Pumping ==
    /\ ~Closing
    /\ IF stack = << >> THEN ~closed
       ELSE Top.pc \in Dialogs /\ ~EndedDialog

\* the main window takes user input: no handler is running and no modal
\* dialog holds the grab
Interactive ==
    /\ ~closed
    /\ ~scale_stop_event
    /\ stack = << >>

NotDispatched == [ok |-> FALSE, invocations |-> 0, waits |-> << >>,
                  error |-> << >>]

\* the application after LabelApp.__init__
InitApp ==
    /\ wpc = "top"
    /\ ser_open = FALSE
    /\ scale_stop_event = FALSE
    /\ after_pending = << >>
    /\ queue = << >>
    /\ scale_status_var = "starting"
    /\ current_weight_var = EmptyText
    /\ last_scale_value = None
    /\ same_value_iterations = 0
    /\ last_auto_printed_value = None
    /\ auto_print_in_progress = FALSE
    /\ auto_print_enabled_var = FALSE
    /\ stable_iterations_var = InitialStableText
    /\ stack = << >>
    /\ closed = FALSE
    /\ preview_update_job = TRUE
    /\ current_label_image = WeightText(EmptyText)
    /\ run_value = None
    /\ run_len = 0
    /\ run_fires = 0
    /\ run_steady = FALSE
    /\ run_auto_failed = FALSE
    /\ run_rerun = FALSE
    /\ run_switched_on = FALSE
    /\ acted_before = None

\* no function is called on its own
\* no file at the path
NoFile == [exists |-> FALSE]

NoCall == [fn |-> "none"]

\* the call has not returned
NotReturned == [raised |-> "pending"]

\* main of scale.py at its first readline: no value read or printed yet
NoScaleRun ==
    /\ scale_loop = [raised |-> "no", value |-> NoFloat, printed |-> "nothing",
                     last_value |-> NoFloat, stable_count |-> 0,
                     last_printed_value |-> NoFloat, at |-> "readline"]
    /\ scale_run = [value |-> NoFloat, len |-> 0, prints |-> 0,
                    last_print |-> NoFloat, printed_before |-> NoFloat]

\* no label input has been written since __init__
NoLabelEdit ==
    /\ label_inputs = InitialLabelInputs
    /\ image_values = PreviewValues(InitialLabelInputs)

\* the application's own specifications call no function on its own
NoStudy ==
    /\ call = NoCall
    /\ returned = NotReturned
    /\ printed_labels = {}
    /\ FONT_CACHE = << >>
    /\ label_config_file = NoFile
    /\ print_log = << >>
    /\ NoScaleRun
    /\ NoLabelEdit

Init ==
    /\ InitApp
    /\ NoStudy
    /\ cli_runs = << >>
    /\ dispatch = NotDispatched
    /\ queue_limit = MaxQueue

controlVars == <<scale_status_var, current_weight_var,
                 last_scale_value, same_value_iterations, last_auto_printed_value,
                 auto_print_in_progress, auto_print_enabled_var,
                 stable_iterations_var, stack, closed,
                 preview_update_job, current_label_image,
                 cli_runs, dispatch, queue_limit, studyVars>>

-----------------------------------------------------------------------------
(* The worker thread: _scale_monitor_worker *)

ConnectedEvent == [type |-> "connected", value |-> 0]

OfflineEvent == [type |-> "offline", value |-> 0]

LiveEvent(v) == [type |-> "live", value |-> v]

\* self.after(0, ...) called by the worker thread.  Tk hands the call to the
\* thread of the control context, which carries it out in its event loop:
\* the call returns as soon as that loop runs, and the callback joins the
\* queue.  A call made when mainloop has returned (on_close has called
\* destroy() and no print handler is on the call stack) raises instead.
AfterRaises == closed /\ stack = << >>

\* A call made while the control context is in no event loop (a print
\* handler runs the print CLI or comes back from a dialog that ended with
\* the application, or on_close runs) waits until it is in one again.
AfterWaits == ~AfterRaises /\ ~Pumping

\* the positions of the worker inside a call of self.after that waits: the
\* call of the except clause of open_scale_serial, the call that reports
\* the connection, the call of the read loop and the call of its except
\* clause
AfterCalls == {"after_failed", "after_connected", "after_live", "after_error"}

\* a queue in which the newest callback runs first
EnqueueAtHead(q, callbacks) == callbacks \o q

\* the queue after self.after(0, ...): Tk runs the callbacks that are due in
\* the order in which they were scheduled
Enqueue(q, callbacks) == q \o callbacks

\* while not self.scale_stop_event.is_set(): the loop body is entered, or
\* the loop is left
LoopTest(stop, body, exit) == IF stop THEN exit ELSE body

\* the test of the reconnect loop; when it fails the thread ends
WorkerLoopTop ==
    /\ wpc = "top"
    /\ wpc' = LoopTest(scale_stop_event, "open", "done")
    /\ UNCHANGED <<ser_open, scale_stop_event, after_pending, queue,
                   controlVars, runVars>>

\* ser = open_scale_serial(), and the callback queued on either outcome.
\* A failed open is followed by time.sleep(SCALE_RECONNECT_DELAY_SECONDS)
\* and continue.  Both calls of self.after are outside the inner try: when
\* one raises, the exception ends the thread, after a successful open with
\* the handle it has just opened.
WorkerOpen ==
    /\ wpc = "open"
    /\ \/ /\ ser_open' = TRUE
          /\ IF AfterRaises
             THEN /\ wpc' = "raised"
                  /\ UNCHANGED <<queue, after_pending>>
             ELSE IF AfterWaits
             THEN /\ wpc' = "after_connected"
                  /\ after_pending' = <<ConnectedEvent>>
                  /\ UNCHANGED queue
             ELSE /\ Len(queue) < queue_limit
                  /\ queue' = Enqueue(queue, <<ConnectedEvent>>)
                  /\ wpc' = "inner"
                  /\ UNCHANGED after_pending
       \/ /\ ser_open' = FALSE
          /\ IF AfterRaises
             THEN /\ wpc' = "raised"
                  /\ UNCHANGED <<queue, after_pending>>
             ELSE IF AfterWaits
             THEN /\ wpc' = "after_failed"
                  /\ after_pending' = <<OfflineEvent>>
                  /\ UNCHANGED queue
             ELSE /\ Len(queue) < queue_limit
                  /\ queue' = Enqueue(queue, <<OfflineEvent>>)
                  /\ wpc' = "top"
                  /\ UNCHANGED after_pending
    /\ UNCHANGED <<scale_stop_event, controlVars, runVars>>

\* a finally clause that leaves the handle as it is
HandleLeftOpen(open) == open

\* ser.close()
HandleAfterFinally(open) == FALSE

\* a worker that ends after the finally clause in every case
AfterFinallyEnds(unwinding) == "raised"

\* after the finally clause: the exception that is leaving ends the thread;
\* otherwise the sleep, and the reconnect loop goes on
AfterFinally(unwinding) == IF unwinding THEN "raised" ELSE "top"

\* the way out of the read loop: finally: ser.close(); then
\* time.sleep(SCALE_RECONNECT_DELAY_SECONDS), or the end of the thread when
\* an exception is leaving
LeaveReadLoop(unwinding) ==
    /\ ser_open' = HandleAfterFinally(ser_open)
    /\ wpc' = AfterFinally(unwinding)

\* the test of the read loop, reached from the connect, from the end of the
\* loop body or from one of its continue statements; when it fails the
\* finally clause follows
WorkerInnerTop ==
    /\ wpc \in {"inner", "continue"}
    /\ IF LoopTest(scale_stop_event, "read", "finally") = "read"
       THEN /\ wpc' = "read"
            /\ UNCHANGED ser_open
       ELSE LeaveReadLoop(FALSE)
    /\ UNCHANGED <<scale_stop_event, after_pending, queue, controlVars,
                   runVars>>

\* what one pass of the read loop meets: ser.readline() returns b"" (the
\* read timed out), a line that is blank once decoded and stripped, a line
\* SCALE_VALUE_RE does not match, a line with a weight, or raises
ReadResults ==
    {[kind |-> k, value |-> 0] : k \in {"timeout", "blank", "unparsed", "error"}}
    \cup {[kind |-> "weight", value |-> v] : v \in RawValues}

\* the three continue statements of the read loop
SkipsRead(r) == r.kind \in {"timeout", "blank", "unparsed"}

\* a read loop that reports every line it cannot use as an error
HandoffReportsSkipped(r) ==
    IF r.kind = "weight" THEN <<LiveEvent(r.value)>> ELSE <<OfflineEvent>>

\* the callbacks one pass of the read loop hands to self.after: none for a
\* skipped read, _on_live_scale_value for a weight,
\* _set_scale_offline_status for an error
Handoff(r) ==
    IF SkipsRead(r) THEN << >>
    ELSE IF r.kind = "weight" THEN <<LiveEvent(r.value)>>
    ELSE <<OfflineEvent>>

\* one pass of the read loop.  A skipped read goes back to the loop test, a
\* weight is handed over and the loop goes on, an error is handed over and
\* ends the read loop.  When self.after raises, the except clause calls
\* self.after again, which raises again, and the exception leaves through
\* the finally clause.
WorkerRead ==
    /\ wpc = "read"
    /\ \E r \in ReadResults :
          IF SkipsRead(r)
          THEN /\ queue' = Enqueue(queue, Handoff(r))
               /\ wpc' = "continue"
               /\ UNCHANGED <<ser_open, after_pending>>
          ELSE IF AfterRaises
          THEN /\ UNCHANGED <<queue, after_pending>>
               /\ LeaveReadLoop(TRUE)
          ELSE IF AfterWaits
          THEN /\ wpc' = IF r.kind = "weight" THEN "after_live"
                         ELSE "after_error"
               /\ after_pending' = Handoff(r)
               /\ UNCHANGED <<queue, ser_open>>
          ELSE /\ Len(queue) < queue_limit
               /\ queue' = Enqueue(queue, Handoff(r))
               /\ UNCHANGED after_pending
               /\ IF r.kind = "weight"
                  THEN /\ wpc' = "inner"
                       /\ UNCHANGED ser_open
                  ELSE LeaveReadLoop(FALSE)
    /\ UNCHANGED <<scale_stop_event, controlVars, runVars>>

\* the call of self.after the worker waits in returns: the control context
\* is in an event loop again, the callback joins the queue and the worker
\* goes on behind the call.  A call that waits when on_close calls
\* destroy() returns in the loop of a dialog a print handler opens
\* afterwards, and never when there is none.
WorkerAfterReturns ==
    /\ wpc \in AfterCalls
    /\ Pumping
    /\ Len(queue) < queue_limit
    /\ queue' = Enqueue(queue, after_pending)
    /\ after_pending' = << >>
    /\ CASE wpc = "after_failed" -> /\ wpc' = "top"
                                    /\ UNCHANGED ser_open
         [] wpc = "after_error" -> LeaveReadLoop(FALSE)
         [] OTHER -> /\ wpc' = "inner"
                     /\ UNCHANGED ser_open
    /\ UNCHANGED <<scale_stop_event, controlVars, runVars>>

-----------------------------------------------------------------------------
(* The print CLI, the label files and the print log *)

\* Diagnostic texts are modelled as sequences of words; a substring search
\* for a phrase is a search for its words in adjacent places.

\* str.lower(), word by word
LowerWord(w) ==
    CASE w = "Resource" -> "resource"
      [] w = "Errno" -> "errno"
      [] w = "usb.core.USBError" -> "usb.core.usberror"
      [] w = "CLI" -> "cli"
      [] w = "Device" -> "device"
      [] w = "Permission" -> "permission"
      [] OTHER -> w

lower(text) == [i \in 1..Len(text) |-> LowerWord(text[i])]

\* phrase in text
Contains(text, phrase) ==
    \E i \in 1..(Len(text) - Len(phrase) + 1) :
        SubSeq(text, i, i + Len(phrase) - 1) = phrase

is_resource_busy_error(error_text) ==
    LET text == lower(error_text)
    IN  \/ Contains(text, <<"resource", "busy">>)
        \/ Contains(text, <<"errno", "16">>)
        \/ Contains(text, <<"usb.core.usberror">>)

\* what the print CLI can write: nothing, three texts of a busy USB
\* interface and a text of another failure
DiagTexts ==
    { << >>,
      <<"Resource", "busy">>,
      <<"Errno", "16">>,
      <<"usb.core.USBError">>,
      <<"device", "not", "found">> }

\* outcomes of one subprocess.run of the print CLI: exit status 0, or a
\* failure with the text it wrote
CliOutcomes ==
    {[returncode |-> 0, output |-> << >>]}
        \cup {[returncode |-> 1, output |-> t] : t \in DiagTexts}

\* the outcomes of the successive runs of the print CLI, as many as are given
CliRuns == [1..MaxCliRuns -> CliOutcomes]

\* "brother_ql CLI print failed."
DefaultFailureText == <<"brother_ql", "CLI", "print", "failed.">>

\* a retry loop that sleeps the base delay before every retry
RetryDelayConstant(attempt) == PRINT_RETRY_BASE_DELAY_SECONDS

\* time.sleep(PRINT_RETRY_BASE_DELAY_SECONDS * attempt)
RetryDelay(attempt) == PRINT_RETRY_BASE_DELAY_SECONDS * attempt

\* a retry test that retries every failure
ShouldRetryAnyFailure(attempt, last_output) == attempt < PRINT_RETRY_ATTEMPTS

\* a retry test without the limit on the attempts
ShouldRetryWithoutLimit(attempt, last_output) ==
    is_resource_busy_error(last_output)

\* attempt < PRINT_RETRY_ATTEMPTS and is_resource_busy_error(last_output)
ShouldRetry(attempt, last_output) ==
    /\ attempt < PRINT_RETRY_ATTEMPTS
    /\ is_resource_busy_error(last_output)

\* the result of one dispatch: returned or raised, the number of runs of
\* the CLI, the sleeps in order, the text of the RuntimeError
DispatchResult(ok, invocations, waits, error) ==
    [ok |-> ok, invocations |-> invocations, waits |-> waits, error |-> error]

\* the retry loop of print_via_brother_cli from the given attempt on
RECURSIVE RetryLoop(_, _, _, _)
RetryLoop(runs, attempt, waits, last_output) ==
    IF attempt > PRINT_RETRY_ATTEMPTS \/ attempt > Len(runs)
    THEN DispatchResult(FALSE, attempt - 1, waits,
                        IF last_output = << >> THEN DefaultFailureText
                        ELSE last_output)
    ELSE LET result == runs[attempt]
             output == IF result.output = << >> THEN DefaultFailureText
                       ELSE result.output
         IN  IF result.returncode = 0
             THEN DispatchResult(TRUE, attempt, waits, << >>)
             ELSE IF ShouldRetry(attempt, output)
                  THEN RetryLoop(runs, attempt + 1,
                                 Append(waits, RetryDelay(attempt)), output)
                  ELSE DispatchResult(FALSE, attempt, waits, output)

\* print_via_brother_cli once the image file is written
print_via_brother_cli(runs) == RetryLoop(runs, 1, << >>, << >>)

\* A file name is a sequence of characters.

\* the characters a cut name is made of here: a letter, the three marks
\* FILENAME_PART_RE lets through, a blank, a slash and, written "eacute",
\* the one character of a letter outside ASCII
FilenameChars == {"a", ".", "_", "-", " ", "/", "eacute"}

\* the class [A-Za-z0-9._-], of which FILENAME_PART_RE matches the complement
\* (of the letters, those that occur in the texts used here)
FilenameSafe ==
    {"a", "c", "g", "k", "n", "o", "t", "u", "w"}
    \cup {"0", "1", "2", "3", "4", "5", "6", "7", "8", "9"}
    \cup {".", "_", "-"}

\* re.sub of a pattern "[class]+" (member) or "[^class]+" (not member) by
\* "_": every maximal run of characters the pattern matches becomes one "_"
RECURSIVE SubRuns(_, _, _, _)
SubRuns(text, class, member, inrun) ==
    IF text = << >> THEN << >>
    ELSE IF (Head(text) \in class) = member
         THEN (IF inrun THEN << >> ELSE <<"_">>)
              \o SubRuns(Tail(text), class, member, TRUE)
         ELSE <<Head(text)>> \o SubRuns(Tail(text), class, member, FALSE)

\* sanitize_filename_part(value, fallback)
sanitize_filename_part(value, fallback) ==
    LET text == Strip(value, Whitespace)
    IN  IF text = << >> THEN fallback
        ELSE LET replaced == SubRuns(text, FilenameSafe, FALSE, FALSE)
                 collapsed == SubRuns(replaced, {"_"}, TRUE, FALSE)
                 trimmed == Strip(collapsed, {".", "_"})
             IN  IF trimmed = << >> THEN fallback ELSE trimmed

\* the placeholder build_printed_label_path passes for the cut name
CutFallback == <<"c", "u", "t">>

\* A label file is held as the parts of its name: the timestamp, the two
\* sanitized parts and the numeric suffix, 0 for the name without suffix.

DigitChars == <<"0", "1", "2", "3", "4", "5", "6", "7", "8", "9">>

\* the decimal digits of a natural number
RECURSIVE NatChars(_)
NatChars(n) ==
    IF n < 10 THEN <<DigitChars[n + 1]>>
    ELSE NatChars(n \div 10) \o <<DigitChars[(n % 10) + 1]>>

\* f"{weight:.4f}" for a weight of val * 0.0001 kg
Fixed4Chars(val) ==
    LET mag == Abs(val)
        frac == mag % 10000
    IN  (IF val < 0 THEN <<"-">> ELSE << >>)
        \o NatChars(mag \div 10000) \o <<".">>
        \o <<DigitChars[(frac \div 1000) + 1],
             DigitChars[((frac \div 100) % 10) + 1],
             DigitChars[((frac \div 10) % 10) + 1],
             DigitChars[(frac % 10) + 1]>>

WeightFallback == <<"u", "n", "k", "n", "o", "w", "n", "k", "g">>

\* the file base_name.png (suffix 0) or base_name_suffix.png
LabelName(stamp, cut_part, weight_part, suffix) ==
    [stamp |-> stamp, cut |-> cut_part, weight |-> weight_part,
     suffix |-> suffix]

\* a search that passes over the first suffix
SkippedSuffix(files, stamp, cut_part, weight_part, suffix) == suffix + 1

\* a search that always takes the first suffix
FirstSuffix(files, stamp, cut_part, weight_part, suffix) == suffix

\* the while loop of build_printed_label_path, entered with suffix 2 once
\* the name without suffix exists: the first suffix whose name is free
RECURSIVE FreeSuffix(_, _, _, _, _)
FreeSuffix(files, stamp, cut_part, weight_part, suffix) ==
    IF LabelName(stamp, cut_part, weight_part, suffix) \in files
    THEN FreeSuffix(files, stamp, cut_part, weight_part, suffix + 1)
    ELSE suffix

\* build_printed_label_path(cut_name, weight) at the second now, with files
\* in PRINTED_LABELS_DIR; weight is a float, never None, when print_label
\* calls
build_printed_label_path(files, now, cut_name, weight) ==
    LET cut_part == sanitize_filename_part(cut_name, CutFallback)
        weight_part == sanitize_filename_part(
                           Fixed4Chars(weight.val) \o <<"k", "g">>,
                           WeightFallback)
    IN  IF LabelName(now, cut_part, weight_part, 0) \notin files
        THEN LabelName(now, cut_part, weight_part, 0)
        ELSE LabelName(now, cut_part, weight_part,
                       FreeSuffix(files, now, cut_part, weight_part, 2))

\* cut names: two that differ and are sanitized to the same part, and none
CutNames == {<<"a", " ", "a">>, <<"a", "/", "a">>, << >>}

\* weights at or over the floor, in 0.0001 kg
PathWeights == {[some |-> TRUE, val |-> 10000], [some |-> TRUE, val |-> -12500]}

\* seconds of datetime.now(); the clock of the machine may be set back
Seconds == {1, 2}

\* files that may be there before the first job: names a job for the cut
\* "a a", 1.0000 kg at second 1 collides with
OldLabels ==
    {LabelName(1, <<"a", "_", "a">>,
               <<"1", ".", "0", "0", "0", "0", "k", "g">>, n) : n \in {0, 2, 3}}

\* build_print_log_entry, of the fields followed here: the second, the cut
\* name stripped and round(weight, 4) in 0.0001 kg
build_print_log_entry(weight_text, env) ==
    [time |-> env.now,
     cut_name |-> Strip(env.cut_name, Whitespace),
     weight_kg |-> parse_decimal(weight_text)]

\* a log that is opened for writing: what was there is lost
rewrite_print_log(log, entry) == <<entry>>

\* append_print_log: path.open("a") and the line written at the end
append_print_log(log, entry) == Append(log, entry)

-----------------------------------------------------------------------------
(* The control context *)

\* self.after(0, lambda: self.scale_status_var.set("Scale: connected"))
DeliverConnected ==
    /\ Pumping
    /\ queue # << >>
    /\ Head(queue).type = "connected"
    /\ queue' = Tail(queue)
    /\ scale_status_var' = "connected"
    /\ run_switched_on' = FALSE
    /\ UNCHANGED <<workerVars, current_weight_var, trackerVars,
                   auto_print_in_progress, optionVars, stack, closed,
                   previewVars, dispatchVars, queue_limit, studyVars,
                   historyVars>>

\* request_preview_update: a job is pending afterwards, the one that was
\* pending or a new one
request_preview_update(job) == TRUE

\* an offline report that leaves the count alone
OfflineIterationsKept(n) == n

\* same_value_iterations after _set_scale_offline_status
OfflineIterations(n) == 0

\* last_scale_value and last_auto_printed_value after
\* _set_scale_offline_status
OfflineValue(text) == None

\* _set_scale_offline_status
DeliverOffline ==
    /\ Pumping
    /\ queue # << >>
    /\ Head(queue).type = "offline"
    /\ queue' = Tail(queue)
    /\ scale_status_var' = "offline"
    /\ last_scale_value' = OfflineValue(last_scale_value)
    /\ same_value_iterations' = OfflineIterations(same_value_iterations)
    /\ last_auto_printed_value' = OfflineValue(last_auto_printed_value)
    /\ current_weight_var' = NAText
    /\ label_inputs' =
          [label_inputs EXCEPT !.total_price =
              update_total_price(NAText, label_inputs.price_per_kg)]
    /\ preview_update_job' = request_preview_update(preview_update_job)
    /\ UNCHANGED <<current_label_image, image_values>>
    /\ run_value' = None
    /\ run_len' = 0
    /\ run_fires' = 0
    /\ run_steady' = FALSE
    /\ run_auto_failed' = FALSE
    /\ run_rerun' = FALSE
    /\ run_switched_on' = FALSE
    /\ UNCHANGED <<workerVars, auto_print_in_progress, optionVars, stack,
                   closed, dispatchVars, queue_limit, functionVars, acted_before>>

\* a count that is never set back to 1
IterationsNeverReset(same, n) == n + 1

\* same_value_iterations after the comparison of _on_live_scale_value
IterationsAfterReading(same, n) == IF same THEN n + 1 ELSE 1

\* last_auto_printed_value after the comparison of _on_live_scale_value
ActedAfterReading(same, acted) == IF same THEN acted ELSE None

\* a trigger condition that does not wait for the required count
WantsAutoPrintIgnoringCount(enabled, iterations, required, acted, formatted) ==
    /\ enabled
    /\ acted # formatted

\* a trigger condition that does not look at the option
WantsAutoPrintWhenOff(enabled, iterations, required, acted, formatted) ==
    /\ iterations >= required
    /\ acted # formatted

\* the condition under which _on_live_scale_value calls _trigger_auto_print
WantsAutoPrint(enabled, iterations, required, acted, formatted) ==
    /\ enabled
    /\ iterations >= required
    /\ acted # formatted

\* what _trigger_auto_print does when it is called:
\* "busy" (one is in flight), "waiting" (under the floor) or "print"
TriggerDecision(in_progress, weight) ==
    IF in_progress THEN "busy"
    ELSE IF UnderFloor(weight) THEN "waiting"
    ELSE "print"

Min2(n) == IF n > 2 THEN 2 ELSE n

NoErrorDialogOpen ==
    \A i \in 1..Len(stack) : stack[i].pc \notin ErrorDialogs

\* what pil_image.save(image_path) of print_via_brother_cli does: the PNG
\* is written, or the save raises an OSError of a busy device or another
\* exception
SaveOutcomes == {"saved", "busy", "failed"}

\* str(e) of the exception of a save that raised
SaveErrorText(outcome) ==
    IF outcome = "busy"
    THEN <<"Errno", "16", "Device", "or", "resource", "busy">>
    ELSE <<"Errno", "13", "Permission", "denied">>

\* the except clause of on_print: the dialog it shows for an exception
\* whose text is err
ErrorDialogOf(err) ==
    IF Contains(lower(err), <<"resource", "busy">>) THEN "dlg_busy"
    ELSE "dlg_err"

\* the application's own specifications do not follow the label files and
\* the print log; the print session does, for MaxJobs label files
JobAllowed(followed) == followed => Cardinality(printed_labels) < MaxJobs

\* print_label from build_printed_label_path to pil_image.save: the label
\* file is written at the path that is free at the second of the clock
SaveLabel(followed, outcome, weight) ==
    IF followed /\ outcome = "saved"
    THEN \E now \in Seconds :
            printed_labels' =
                printed_labels \cup
                    {build_printed_label_path(printed_labels, now,
                         Strip(label_inputs.cut_name, Whitespace), weight)}
    ELSE UNCHANGED printed_labels

\* _on_live_scale_value(value), up to its return or, when it prints, up to
\* the first run of the print CLI.  saved: the label path was made and the
\* PNG written (print_via_brother_cli raises when that fails).  The label
\* image exists from __init__ on, so print_label never rebuilds it.
DeliverLiveIn(followed) ==
    /\ Pumping
    /\ queue # << >>
    /\ Head(queue).type = "live"
    /\ LET formatted == Format4(Head(queue).value)
           same == formatted = last_scale_value
           iterations == IterationsAfterReading(same, same_value_iterations)
           acted == ActedAfterReading(same, last_auto_printed_value)
           weight == parse_decimal(formatted)
           wants == WantsAutoPrint(auto_print_enabled_var, iterations,
                                   get_required_stable_iterations, acted, formatted)
           decision == IF wants
                       THEN TriggerDecision(auto_print_in_progress, weight)
                       ELSE "none"
           newrun == formatted # run_value
           fires == IF newrun THEN 0 ELSE run_fires
       IN  /\ iterations <= MaxCount
           /\ (IF newrun THEN 1 ELSE run_len + 1) <= MaxCount
           /\ queue' = Tail(queue)
           /\ current_weight_var' = formatted
           /\ label_inputs' =
                 [label_inputs EXCEPT !.total_price =
                     update_total_price(formatted, label_inputs.price_per_kg)]
           /\ preview_update_job' = request_preview_update(preview_update_job)
           /\ UNCHANGED <<current_label_image, image_values>>
           /\ last_scale_value' = formatted
           /\ same_value_iterations' = iterations
           /\ last_auto_printed_value' = acted
           /\ run_value' = formatted
           /\ run_len' = IF newrun THEN 1 ELSE run_len + 1
           /\ run_rerun' = IF newrun THEN formatted = acted_before ELSE run_rerun
           /\ run_switched_on' = FALSE
           /\ \/ /\ decision # "print"
                 /\ scale_status_var' = IF decision = "waiting" THEN "waiting" ELSE "live"
                 /\ UNCHANGED <<auto_print_in_progress, stack, printed_labels>>
                 /\ run_fires' = fires
                 /\ run_steady' = IF newrun
                                  THEN /\ auto_print_enabled_var
                                       /\ weight.val >= MIN_PRINT_WEIGHT_KG
                                       /\ NoErrorDialogOpen
                                  ELSE run_steady
                 /\ run_auto_failed' = IF newrun THEN FALSE ELSE run_auto_failed
              \/ /\ decision = "print"
                 /\ JobAllowed(followed)
                 /\ auto_print_in_progress' = TRUE
                 /\ run_fires' = Min2(fires + 1)
                 /\ \E saved \in SaveOutcomes :
                        /\ SaveLabel(followed, saved, weight)
                        /\ IF saved = "saved"
                           THEN /\ scale_status_var' = "live"
                                /\ stack' = Append(stack,
                                       Frame("auto", "attempt", formatted, weight,
                                             current_label_image))
                                /\ run_steady' = IF newrun
                                                 THEN /\ weight.val >= MIN_PRINT_WEIGHT_KG
                                                      /\ NoErrorDialogOpen
                                                 ELSE run_steady
                                /\ run_auto_failed' = IF newrun THEN FALSE
                                                      ELSE run_auto_failed
                           ELSE /\ scale_status_var' = "auto-print failed"
                                /\ stack' = Append(stack,
                                       Frame("auto", "dlg_err", formatted, NoFloat, None))
                                /\ run_steady' = FALSE
                                /\ run_auto_failed' = TRUE
    /\ UNCHANGED <<workerVars, optionVars, closed, dispatchVars, queue_limit,
                   idleVars, print_log, acted_before>>

DeliverLive == DeliverLiveIn(FALSE)

\* on_print: the Print button.  print_label raises for a weight under the
\* floor and when the label file cannot be written; on_print shows the error.
ClickPrintIn(followed) ==
    /\ Interactive
    /\ LET weight == parse_decimal(current_weight_var)
       IN  IF UnderFloor(weight)
           THEN /\ stack' = Append(stack,
                        Frame("manual", "dlg_err", None, NoFloat, None))
                /\ UNCHANGED <<run_steady, printed_labels>>
           ELSE /\ JobAllowed(followed)
                /\ \E saved \in SaveOutcomes :
                    /\ SaveLabel(followed, saved, weight)
                    /\ IF saved = "saved"
                       THEN /\ stack' = Append(stack,
                                  Frame("manual", "attempt", None, weight,
                                        current_label_image))
                            /\ UNCHANGED run_steady
                       ELSE /\ stack' = Append(stack,
                                  Frame("manual", ErrorDialogOf(SaveErrorText(saved)),
                                        None, NoFloat, None))
                            /\ run_steady' = FALSE
    /\ run_switched_on' = FALSE
    /\ UNCHANGED <<workerVars, queue, scale_status_var, current_weight_var,
                   trackerVars, auto_print_in_progress, optionVars, closed,
                   previewVars, dispatchVars, queue_limit, idleVars, print_log,
                   labelVars,
                   run_value, run_len, run_fires, run_auto_failed, run_rerun,
                   acted_before>>

ClickPrint == ClickPrintIn(FALSE)

\* the "Print when stable" checkbox
ToggleAutoPrint ==
    /\ Interactive
    /\ auto_print_enabled_var' = ~auto_print_enabled_var
    /\ run_steady' = FALSE
    /\ run_switched_on' =
          (/\ ~auto_print_enabled_var
           /\ same_value_iterations >= get_required_stable_iterations)
    /\ UNCHANGED <<workerVars, queue, scale_status_var, current_weight_var,
                   trackerVars, auto_print_in_progress, stable_iterations_var,
                   stack, closed, previewVars, dispatchVars, queue_limit,
                   studyVars, run_value, run_len, run_fires,
                   run_auto_failed, run_rerun, acted_before>>

\* the "Stable iterations" spinbox
SetStableIterations ==
    /\ Interactive
    /\ \E text \in StableTexts :
           /\ text # stable_iterations_var
           /\ stable_iterations_var' = text
    /\ run_steady' = FALSE
    /\ run_switched_on' = FALSE
    /\ UNCHANGED <<workerVars, queue, scale_status_var, current_weight_var,
                   trackerVars, auto_print_in_progress, auto_print_enabled_var,
                   stack, closed, previewVars, dispatchVars, queue_limit,
                   studyVars, run_value, run_len, run_fires,
                   run_auto_failed, run_rerun, acted_before>>

\* a flag that is cleared on the success path only
InProgressClearedOnSuccessOnly(succeeded) == ~succeeded

\* auto_print_in_progress after the finally of _trigger_auto_print
InProgressAfterAutoPrint(succeeded) == FALSE

\* an acted value that is recorded whatever _trigger_auto_print returns
ActedRecordedAlways(succeeded, formatted, acted) == formatted

\* last_auto_printed_value after "if self._trigger_auto_print():" of
\* _on_live_scale_value
ActedAfterAutoPrint(succeeded, formatted, acted) ==
    IF succeeded THEN formatted ELSE acted

\* the return of the innermost print handler to the event loop that called
\* it: _trigger_auto_print clears the flag and, when it returns True,
\* _on_live_scale_value records the acted value
ReturnFromPrint(succeeded) ==
    /\ stack' = Pop
    /\ IF Top.kind = "auto"
       THEN /\ auto_print_in_progress' = InProgressAfterAutoPrint(succeeded)
            /\ last_auto_printed_value' =
                   ActedAfterAutoPrint(succeeded, Top.formatted,
                                       last_auto_printed_value)
       ELSE UNCHANGED <<auto_print_in_progress, last_auto_printed_value>>

\* log_successful_print: the line of build_print_log_entry is appended to
\* the print log; when append_print_log raises, the log is left as it was
AppendLog(followed, logged) ==
    IF followed /\ logged
    THEN \E now \in Seconds :
            print_log' =
                append_print_log(print_log,
                    build_print_log_entry(current_weight_var,
                        [now |-> now, cut_name |-> label_inputs.cut_name]))
    ELSE UNCHANGED print_log

\* one pass of the retry loop of print_via_brother_cli: subprocess.run and,
\* after a failure that is tried again, time.sleep.  The control context
\* is in no event loop meanwhile; the worker thread runs on.  A run with
\* exit status 0 ends the loop, and print_label goes on to
\* log_successful_print (logged: append_print_log wrote the line;
\* otherwise the warning dialog is shown).  A failure that is not tried
\* again raises RuntimeError, and the caller of print_label shows its error
\* dialog.
RunPrintCliIn(followed) ==
    /\ stack # << >>
    /\ Top.pc = "attempt"
    /\ \E result \in CliOutcomes :
        LET last_output == IF result.output = << >> THEN DefaultFailureText
                           ELSE result.output
        IN  IF result.returncode = 0
            THEN /\ acted_before' = IF Top.kind = "auto" THEN Top.formatted
                                    ELSE acted_before
                 /\ \E logged \in BOOLEAN :
                        /\ AppendLog(followed, logged)
                        /\ IF logged
                           THEN ReturnFromPrint(TRUE)
                           ELSE /\ stack' = [stack EXCEPT
                                                ![Len(stack)].pc = "dlg_log",
                                                ![Len(stack)].attempt = 0,
                                                ![Len(stack)].weight = NoFloat,
                                                ![Len(stack)].image = None]
                                /\ UNCHANGED <<auto_print_in_progress,
                                               last_auto_printed_value>>
                 /\ UNCHANGED <<scale_status_var, run_steady, run_auto_failed>>
            ELSE IF ShouldRetry(Top.attempt, last_output)
            THEN /\ stack' = [stack EXCEPT ![Len(stack)].attempt = @ + 1]
                 /\ UNCHANGED <<scale_status_var, run_steady, run_auto_failed,
                                auto_print_in_progress, last_auto_printed_value,
                                acted_before, print_log>>
            ELSE /\ stack' = [stack EXCEPT
                                 ![Len(stack)].pc =
                                     IF Top.kind = "auto" THEN "dlg_err"
                                     ELSE ErrorDialogOf(last_output),
                                 ![Len(stack)].attempt = 0,
                                 ![Len(stack)].weight = NoFloat,
                                 ![Len(stack)].image = None]
                 /\ scale_status_var' = IF Top.kind = "auto" THEN "auto-print failed"
                                        ELSE scale_status_var
                 /\ run_steady' = FALSE
                 /\ run_auto_failed' = (run_auto_failed \/ Top.kind = "auto")
                 /\ UNCHANGED <<auto_print_in_progress, last_auto_printed_value,
                                acted_before, print_log>>
    /\ UNCHANGED <<workerVars, queue, current_weight_var, last_scale_value,
                   same_value_iterations, optionVars, closed, previewVars,
                   dispatchVars, queue_limit, idleVars, printed_labels,
                   labelVars, run_value, run_len, run_fires, run_rerun,
                   run_switched_on>>

RunPrintCli == RunPrintCliIn(FALSE)

\* the user closes the dialog of the innermost print handler, which returns
DismissDialog ==
    /\ Pumping
    /\ stack # << >>
    /\ ReturnFromPrint(Top.pc = "dlg_log")
    /\ UNCHANGED <<workerVars, queue, scale_status_var, current_weight_var,
                   last_scale_value, same_value_iterations, optionVars, closed,
                   previewVars, dispatchVars, queue_limit, studyVars, runVars>>

\* on_close up to save_default_session: it sets the stop flag and cancels
\* the pending preview job.  The worker thread runs on while it writes the
\* session file.  on_close is the WM_DELETE_WINDOW handler: the event loop
\* that is running calls it, mainloop or the loop of a modal dialog, whose
\* grab does not hold back the message of the window manager.
OnClose ==
    /\ Pumping
    /\ ~closed
    /\ scale_stop_event' = TRUE
    /\ preview_update_job' = FALSE
    /\ run_switched_on' = FALSE
    /\ UNCHANGED <<wpc, ser_open, after_pending, queue, scale_status_var,
                   current_weight_var, trackerVars, auto_print_in_progress,
                   optionVars, stack, closed, current_label_image,
                   dispatchVars, queue_limit, studyVars, historyVars>>

\* self.destroy() at the end of on_close: the callbacks still queued are
\* never run (destroy() deletes their Tcl commands) and mainloop returns.
\* The print handlers whose dialog is open stay on the call stack, and a
\* call of self.after that waits goes on waiting.
Destroy ==
    /\ Closing
    /\ closed' = TRUE
    /\ queue' = << >>
    /\ UNCHANGED <<workerVars, scale_status_var, current_weight_var,
                   trackerVars, auto_print_in_progress, optionVars, stack,
                   previewVars, dispatchVars, queue_limit, studyVars,
                   runVars>>

\* str(e) of the TclError of a message box whose application was destroyed
DestroyedText ==
    <<"can't", "invoke", "grab", "command:", "application", "has", "been",
      "destroyed">>

\* the dialog of the innermost print handler has ended with the application
\* that on_close destroyed, and the handler goes on.  tk_messageBox
\* returns, or raises TclError (the message box of Tk for X11 runs
\* commands of the destroyed application once its wait ends).
\*   An error dialog that returns or raises ends its handler: the finally
\* clause of _trigger_auto_print clears the flag and nothing is recorded.
\*   A log warning that returns lets print_label return, and
\* _on_live_scale_value records the acted value.  A log warning that
\* raises leaves log_successful_print and print_label with the TclError,
\* which the except clause of the handler catches: _trigger_auto_print
\* sets the status text, and either handler shows its error dialog, on a
\* temporary root, with the flag as it is.
DialogEndsAfterDestroy ==
    /\ EndedDialog
    /\ \E raises \in BOOLEAN :
          IF Top.pc = "dlg_log" /\ raises
          THEN /\ stack' = [stack EXCEPT
                               ![Len(stack)].pc =
                                   IF Top.kind = "auto" THEN "dlg_err"
                                   ELSE ErrorDialogOf(DestroyedText),
                               ![Len(stack)].root = "temp"]
               /\ scale_status_var' = IF Top.kind = "auto" THEN "auto-print failed"
                                      ELSE scale_status_var
               /\ run_steady' = FALSE
               /\ UNCHANGED <<auto_print_in_progress, last_auto_printed_value>>
          ELSE /\ ReturnFromPrint(Top.pc = "dlg_log")
               /\ UNCHANGED <<scale_status_var, run_steady>>
    /\ UNCHANGED <<workerVars, queue, current_weight_var, last_scale_value,
                   same_value_iterations, optionVars, closed, previewVars,
                   dispatchVars, queue_limit, studyVars, run_value, run_len,
                   run_fires, run_auto_failed, run_rerun, run_switched_on,
                   acted_before>>

\* _run_preview_update: the pending job runs update_preview, which composes
\* the label image from the values current now
RunPreviewUpdate ==
    /\ Pumping
    /\ preview_update_job
    /\ preview_update_job' = FALSE
    /\ current_label_image' = WeightText(current_weight_var)
    /\ image_values' = PreviewValues(label_inputs)
    /\ run_switched_on' = FALSE
    /\ UNCHANGED <<workerVars, queue, scale_status_var, current_weight_var,
                   trackerVars, auto_print_in_progress, optionVars, stack,
                   closed, dispatchVars, queue_limit, functionVars,
                   label_inputs, historyVars>>

-----------------------------------------------------------------------------
(* The specification *)

Next ==
    \/ WorkerLoopTop
    \/ WorkerOpen
    \/ WorkerInnerTop
    \/ WorkerRead
    \/ WorkerAfterReturns
    \/ DeliverConnected
    \/ DeliverOffline
    \/ DeliverLive
    \/ ClickPrint
    \/ ToggleAutoPrint
    \/ SetStableIterations
    \/ RunPrintCli
    \/ DismissDialog
    \/ OnClose
    \/ Destroy
    \/ DialogEndsAfterDestroy
    \/ RunPreviewUpdate

Spec == Init /\ [][Next]_vars

-----------------------------------------------------------------------------
(* The scale session while the user only watches and closes the window:    *)
(* the worker thread, the delivery of its callbacks, the preview job and   *)
(* on_close.  The operating system runs the worker thread, every           *)
(* readline returns within its timeout and every sleep ends; the Tk event  *)
(* loop runs the callbacks it was given, and on_close runs to its end.     *)
(* The worker is a daemon thread that on_close does not join: once         *)
(* destroy() has made mainloop return the process ends, and no further     *)
(* step of the worker is certain.  No print handler runs here, so the      *)
(* control context leaves its event loop only in on_close, and a call of   *)
(* self.after that waits then never returns.                               *)

NextWorker ==
    \/ WorkerLoopTop
    \/ WorkerOpen
    \/ WorkerInnerTop
    \/ WorkerRead
    \/ DeliverConnected
    \/ DeliverOffline
    \/ DeliverLive
    \/ RunPreviewUpdate
    \/ OnClose
    \/ Destroy

FairWorker ==
    /\ WF_vars(~closed /\ WorkerLoopTop)
    /\ WF_vars(~closed /\ WorkerOpen)
    /\ WF_vars(~closed /\ WorkerInnerTop)
    /\ WF_vars(~closed /\ WorkerRead)
    /\ WF_vars(DeliverConnected)
    /\ WF_vars(DeliverOffline)
    /\ WF_vars(DeliverLive)
    /\ WF_vars(Destroy)

SpecWorker == Init /\ [][NextWorker]_vars /\ FairWorker

\* the session with room for more callbacks to wait, so that the worker can
\* run ahead of the control context, and with the Print button: while a
\* print handler runs the print CLI the worker's calls of self.after wait
InitHandoff ==
    /\ InitApp
    /\ NoStudy
    /\ cli_runs = << >>
    /\ dispatch = NotDispatched
    /\ queue_limit = MaxPending

NextHandoff ==
    \/ NextWorker
    \/ WorkerAfterReturns
    \/ ClickPrint
    \/ RunPrintCli
    \/ DismissDialog
    \/ DialogEndsAfterDestroy

SpecHandoff == InitHandoff /\ [][NextHandoff]_vars

-----------------------------------------------------------------------------
(* print_via_brother_cli on its own: one call, for every sequence of        *)
(* outcomes of the print CLI                                                 *)

InitDispatch ==
    /\ InitApp
    /\ NoStudy
    /\ cli_runs \in CliRuns
    /\ dispatch = NotDispatched
    /\ queue_limit = MaxQueue

\* the call of print_via_brother_cli
Dispatch ==
    /\ cli_runs # << >>
    /\ dispatch = NotDispatched
    /\ dispatch' = print_via_brother_cli(cli_runs)
    /\ UNCHANGED <<workerVars, queue, scale_status_var, current_weight_var,
                   trackerVars, auto_print_in_progress, optionVars, stack,
                   closed, previewVars, cli_runs, queue_limit, studyVars, runVars>>

NextDispatch == Dispatch

SpecDispatch == InitDispatch /\ [][NextDispatch]_vars

TypeOK ==
    /\ wpc \in {"top", "open", "inner", "read", "continue", "done", "raised"}
                \cup AfterCalls
    /\ (wpc \in AfterCalls) = (after_pending # << >>)
    /\ ser_open \in BOOLEAN
    /\ queue_limit \in {MaxQueue, MaxPending}
    /\ Len(queue) <= queue_limit
    /\ same_value_iterations \in 0..MaxCount
    /\ Len(stack) <= 2

-----------------------------------------------------------------------------
(* The functions of the module called on their own.  The application is in *)
(* its initial state and stays there; call holds the arguments, returned   *)
(* the outcome.  A text is a sequence of characters.                        *)

\* everything the application's own specifications change
appVars == <<workerVars, queue, scale_status_var, current_weight_var,
             trackerVars, auto_print_in_progress, optionVars, stack, closed,
             previewVars, dispatchVars, queue_limit, runVars>>

\* the application before anything has happened
InitIdle ==
    /\ InitApp
    /\ cli_runs = << >>
    /\ dispatch = NotDispatched
    /\ queue_limit = MaxQueue

\* the outcome of a call that returned value
Returned(value) == [raised |-> "no", value |-> value]

\* the texts of at most n characters over the alphabet
RECURSIVE TextsUpTo(_, _)
TextsUpTo(alphabet, n) ==
    IF n = 0 THEN {<< >>}
    ELSE LET shorter == TextsUpTo(alphabet, n - 1)
         IN  shorter \cup {Append(t, c) : t \in shorter, c \in alphabet}

-----------------------------------------------------------------------------
(* sanitize_filename_part *)

SanitizeCalls ==
    {[fn |-> "sanitize_filename_part", value |-> t, fallback |-> CutFallback] :
        t \in TextsUpTo(FilenameChars, MaxText)}

InitSanitize ==
    /\ InitIdle
    /\ call \in SanitizeCalls
    /\ returned = NotReturned
    /\ printed_labels = {}
    /\ FONT_CACHE = << >>
    /\ label_config_file = NoFile
    /\ print_log = << >>
    /\ NoScaleRun
    /\ NoLabelEdit

CallSanitize ==
    /\ call.fn = "sanitize_filename_part"
    /\ returned.raised = "pending"
    /\ returned' = Returned(sanitize_filename_part(call.value, call.fallback))
    /\ UNCHANGED <<appVars, call, printed_labels, FONT_CACHE,
                   label_config_file,
                   print_log, scaleVars, labelVars>>

NextSanitize == CallSanitize

SpecSanitize == InitSanitize /\ [][NextSanitize]_vars

-----------------------------------------------------------------------------
(* build_printed_label_path and the save that follows it in a print job.   *)
(* A file name is held as its parts: the timestamp, the two sanitized      *)
(* parts and the numeric suffix, 0 for the name without suffix.  The       *)
(* weight part always ends in "kg", so no name without suffix is another   *)
(* one's suffixed name.                                                     *)

NoPath == LabelName(0, << >>, << >>, 0)

\* the jobs run so far
JobsRun == IF call.fn = "none" THEN 0 ELSE call.job

\* the job asks for the cut name, weight and second of the job before it
Repeats(cut_name, weight, now) ==
    /\ call.fn = "print_label"
    /\ call.cut_name = cut_name
    /\ call.weight = weight
    /\ call.now = now

InitPath ==
    /\ InitIdle
    /\ call = NoCall
    /\ returned = [raised |-> "pending", value |-> NoPath, writes |-> 0]
    /\ printed_labels \in SUBSET OldLabels
    /\ FONT_CACHE = << >>
    /\ label_config_file = NoFile
    /\ print_log = << >>
    /\ NoScaleRun
    /\ NoLabelEdit

\* print_label from the call of build_printed_label_path to
\* pil_image.save(image_path) in print_via_brother_cli: the path is chosen
\* and the file is written, or the save raises and leaves no file
PrintJob ==
    /\ JobsRun < MaxJobs
    /\ \E cut_name \in CutNames, weight \in PathWeights, now \in Seconds,
          saved \in BOOLEAN :
          LET label_path == build_printed_label_path(printed_labels, now,
                                                     cut_name, weight)
          IN  /\ call' = [fn |-> "print_label", cut_name |-> cut_name,
                          weight |-> weight, now |-> now, job |-> JobsRun + 1,
                          repeats |-> Repeats(cut_name, weight, now)]
              /\ returned' = [raised |-> IF saved THEN "no" ELSE "save",
                              value |-> label_path,
                              writes |-> returned.writes
                                         + (IF saved THEN 1 ELSE 0)]
              /\ printed_labels' = IF saved
                                   THEN printed_labels \cup {label_path}
                                   ELSE printed_labels
    /\ UNCHANGED <<appVars, FONT_CACHE, label_config_file,
                   print_log, scaleVars, labelVars>>

NextPath == PrintJob

SpecPath == InitPath /\ [][NextPath]_vars

-----------------------------------------------------------------------------
(* The print session: the application with the scale connected, while the  *)
(* user prints, closes the dialogs of the print handlers and resets the     *)
(* print log.  The label files and the print log are followed here.  The    *)
(* session starts at a moment when no handler runs: the weight variable     *)
(* holds "", "n/a" or a reading, and a reading may wait to be delivered,    *)
(* which the event loop of a dialog delivers too.  The worker waits in      *)
(* readline for the whole session: the scale sends nothing more.            *)

\* the weight variable holds "", "n/a" or a formatted reading
PrintTexts == {EmptyText, NAText} \cup {Format4(v) : v \in RawValues}

\* the tracker fields while the weight variable holds the text
TrackersOf(text) ==
    IF text.kind # "num"
    THEN {[last_scale_value |-> None, same_value_iterations |-> 0,
           last_auto_printed_value |-> None]}
    ELSE {[last_scale_value |-> text, same_value_iterations |-> n,
           last_auto_printed_value |-> acted] :
              n \in 1..MaxCount, acted \in {None, text}}

\* the print log at the start: no line, or the line of an earlier print
OldLogs ==
    { << >>,
      <<[time |-> 0, cut_name |-> <<"a">>,
         weight_kg |-> [some |-> TRUE, val |-> 10000]]>> }

\* the cut name typed in the label form
SessionCutName == <<"a", "/", "a">>

\* the spinbox holds "2"
SessionStableText == [valid |-> TRUE, n |-> 2]

InitPrint ==
    /\ wpc = "read"
    /\ ser_open = TRUE
    /\ scale_stop_event = FALSE
    /\ after_pending = << >>
    /\ queue \in {<< >>} \cup {<<LiveEvent(v)>> : v \in RawValues}
    /\ current_weight_var \in PrintTexts
    /\ scale_status_var = IF current_weight_var.kind = "num" THEN "live"
                          ELSE "connected"
    /\ \E tracker \in TrackersOf(current_weight_var) :
          /\ last_scale_value = tracker.last_scale_value
          /\ same_value_iterations = tracker.same_value_iterations
          /\ last_auto_printed_value = tracker.last_auto_printed_value
    /\ auto_print_in_progress = FALSE
    /\ auto_print_enabled_var \in BOOLEAN
    /\ stable_iterations_var = SessionStableText
    /\ stack = << >>
    /\ closed = FALSE
    /\ preview_update_job = FALSE
    /\ current_label_image = WeightText(current_weight_var)
    /\ label_inputs = [InitialLabelInputs EXCEPT !.cut_name = SessionCutName]
    /\ image_values = PreviewValues(label_inputs)
    /\ run_value = last_scale_value
    /\ run_len = same_value_iterations
    /\ run_fires = IF last_auto_printed_value = None THEN 0 ELSE 1
    /\ run_steady = FALSE
    /\ run_auto_failed = FALSE
    /\ run_rerun = FALSE
    /\ run_switched_on = FALSE
    /\ acted_before = last_auto_printed_value
    /\ cli_runs = << >>
    /\ dispatch = NotDispatched
    /\ queue_limit = MaxQueue
    /\ call = NoCall
    /\ returned = NotReturned
    /\ printed_labels = {}
    /\ FONT_CACHE = << >>
    /\ label_config_file = NoFile
    /\ print_log \in OldLogs
    /\ NoScaleRun

\* on_print, with the label file it writes
PrintClicked == ClickPrintIn(TRUE)

\* _on_live_scale_value, with the label file an auto-print writes
ReadingDelivered == DeliverLiveIn(TRUE)

\* a pass of the retry loop, with the log line print_label appends
PrintCliRun == RunPrintCliIn(TRUE)

\* rotate_print_log: the print log is moved to the archive directory and an
\* empty file is left at its path
rotate_print_log(log) == << >>

\* AnalyticsWindow.on_reset_log once the user has confirmed: the "Reset
\* log" button of the analytics window, which no modal dialog of a print
\* handler lets the user reach.  When rotate_print_log raises, the log
\* stays as it is.
ResetLog ==
    /\ Interactive
    /\ print_log # << >>
    /\ print_log' = rotate_print_log(print_log)
    /\ UNCHANGED <<appVars, idleVars, printed_labels, labelVars>>

NextPrint ==
    \/ ReadingDelivered
    \/ PrintClicked
    \/ PrintCliRun
    \/ DismissDialog
    \/ RunPreviewUpdate
    \/ ResetLog

SpecPrint == InitPrint /\ [][NextPrint]_vars

-----------------------------------------------------------------------------
(* The label field config: normalize_label_field_config,                    *)
(* normalize_label_line_spacing and the config file that                    *)
(* save_label_field_config writes and load_label_field_config reads.  A     *)
(* Python value is held as its type and its content.  In a text, a name of  *)
(* the program (a field key, the free-text prefix, a default print name)    *)
(* and a JSON literal are written as one element.                           *)

PyStr(text) == [t |-> "str", s |-> text, n |-> 0, b |-> FALSE]

PyInt(n) == [t |-> "int", s |-> << >>, n |-> n, b |-> FALSE]

PyBool(b) == [t |-> "bool", s |-> << >>, n |-> 0, b |-> b]

PyNone == [t |-> "none", s |-> << >>, n |-> 0, b |-> FALSE]

\* a finite float, held in tenths
PyFloat(tenths) == [t |-> "float", s |-> << >>, n |-> tenths, b |-> FALSE]

\* float("inf"), which json.load returns for Infinity and for 1e999
PyInf == [t |-> "float", s |-> <<"inf">>, n |-> 0, b |-> FALSE]

\* float("nan")
PyNaN == [t |-> "float", s |-> <<"nan">>, n |-> 0, b |-> FALSE]

\* what stands for the value of a key the dict does not have
Missing == [t |-> "missing", s |-> << >>, n |-> 0, b |-> FALSE]

\* dict.get(key, default), given the value under the key or Missing
Get(value, default) == IF value.t = "missing" THEN default ELSE value

\* the decimal text of an integer
IntChars(n) == IF n < 0 THEN <<"-">> \o NatChars(-n) ELSE NatChars(n)

\* the value of a decimal digit
DigitValue(c) == CHOOSE d \in 0..9 : DigitChars[d + 1] = c

IsDigit(c) == \E d \in 0..9 : DigitChars[d + 1] = c

\* the natural number a text of digits denotes
RECURSIVE DigitsNat(_)
DigitsNat(chars) ==
    IF chars = << >> THEN 0
    ELSE 10 * DigitsNat(SubSeq(chars, 1, Len(chars) - 1))
         + DigitValue(chars[Len(chars)])

\* the outcome of a conversion to int: the exception raised ("no": none)
\* and the number
Converted(raised, n) == [raised |-> raised, n |-> n]

\* the integer a text without blanks around it denotes: an optional sign,
\* then digits
SignedDigits(stripped) ==
    LET signed == stripped # << >> /\ Head(stripped) \in {"+", "-"}
        digits == IF signed THEN Tail(stripped) ELSE stripped
    IN  IF digits # << >> /\ \A i \in 1..Len(digits) : IsDigit(digits[i])
        THEN Converted("no", IF signed /\ Head(stripped) = "-"
                               THEN -DigitsNat(digits)
                               ELSE DigitsNat(digits))
        ELSE Converted("ValueError", 0)

\* int(text): the blanks around the text are ignored
IntOfText(text) == SignedDigits(Strip(text, Whitespace))

\* int(value)
int(value) ==
    CASE value.t = "int" -> Converted("no", value.n)
      [] value.t = "bool" -> Converted("no", IF value.b THEN 1 ELSE 0)
      [] value.t = "float" ->
            IF value.s = <<"inf">> THEN Converted("OverflowError", 0)
            ELSE IF value.s = <<"nan">> THEN Converted("ValueError", 0)
            ELSE Converted("no", IF value.n < 0 THEN -((-value.n) \div 10)
                                   ELSE value.n \div 10)
      [] value.t = "str" -> IntOfText(value.s)
      [] OTHER -> Converted("TypeError", 0)

\* str(value)
str(value) ==
    CASE value.t = "str" -> value.s
      [] value.t = "int" -> IntChars(value.n)
      [] value.t = "bool" -> IF value.b THEN <<"True">> ELSE <<"False">>
      [] value.t = "float" ->
            IF value.s # << >> THEN value.s
            ELSE (IF value.n < 0 THEN <<"-">> ELSE << >>)
                 \o NatChars(Abs(value.n) \div 10) \o <<".">>
                 \o NatChars(Abs(value.n) % 10)
      [] OTHER -> <<"None">>

\* bool(value)
bool(value) ==
    CASE value.t = "str" -> value.s # << >>
      [] value.t = "int" -> value.n # 0
      [] value.t = "bool" -> value.b
      [] value.t = "float" -> value.s # << >> \/ value.n # 0
      [] OTHER -> FALSE

\* max(low, min(high, value))
Clamp(low, high, value) ==
    IF value > high THEN high ELSE IF value < low THEN low ELSE value

\* the keys and labels of LABEL_FIELD_DEFS, in definition order
LABEL_FIELD_DEFS ==
    << <<"cut_name", "Cut">>,
       <<"weight_kg", "Weight KG">>,
       <<"price_per_kg", "Price / KG">>,
       <<"tax", "Tax">>,
       <<"total_price", "Total price">>,
       <<"farm_name", "Farm">>,
       <<"logo_path", "Logo">>,
       <<"animal_number", "Animal Number">>,
       <<"farm_number", "Farm Number">>,
       <<"due_date_4_7", "Due date 4-7">>,
       <<"due_date_frozen", "Due date frozen">>,
       <<"birth_country", "Birth Country">>,
       <<"life_country", "Life Country">>,
       <<"slaughter_country", "Slaugther Country">>,
       <<"packaged_country", "Packaged Country">> >>

EMPTY_LINE_KEY_PREFIX == "__empty_line__"

\* a dict with the four keys of a label field entry
Entry(key, print_name, show, font_size) ==
    [dict |-> TRUE, key |-> key, print_name |-> print_name, show |-> show,
     font_size |-> font_size]

\* an item of the list that is not a dict
NotADict ==
    [dict |-> FALSE, key |-> Missing, print_name |-> Missing,
     show |-> Missing, font_size |-> Missing]

\* a Python list of config items
PyList(items) == [list |-> TRUE, items |-> items]

\* a value that is not a list
NotAList == [list |-> FALSE, items |-> << >>]

\* default_label_field_config()
default_label_field_config ==
    [i \in 1..Len(LABEL_FIELD_DEFS) |->
        LET key == LABEL_FIELD_DEFS[i][1]
        IN  Entry(PyStr(<<key>>), PyStr(<<LABEL_FIELD_DEFS[i][2]>>),
                  PyBool(key # "logo_path"),
                  PyInt(CASE key = "cut_name" -> 52
                          [] key \in {"weight_kg", "total_price"} -> 34
                          [] key = "farm_name" -> 28
                          [] OTHER -> 24))]

\* defaults_by_key
defaults_by_key ==
    [key \in {<<LABEL_FIELD_DEFS[i][1]>> : i \in 1..Len(LABEL_FIELD_DEFS)} |->
        CHOOSE entry \in {default_label_field_config[i] :
                            i \in 1..Len(LABEL_FIELD_DEFS)} :
            entry.key.s = key]

\* is_empty_line_key(key)
is_empty_line_key(key) == key # << >> /\ Head(key) = EMPTY_LINE_KEY_PREFIX

\* make_empty_line_entry(key) for a key that is given
make_empty_line_entry(key) ==
    Entry(PyStr(key), PyStr(<< >>), PyBool(TRUE), PyInt(24))

\* the outcome of a call that raised
Raised(exception) == [raised |-> exception, value |-> << >>]

\* max(0, min(120, value)) of normalize_label_line_spacing, value being
\* the outcome of int(raw_value); OverflowError is not caught
ClampedSpacing(value) ==
    IF value.raised = "OverflowError" THEN Raised("OverflowError")
    ELSE Returned(Clamp(0, 120, IF value.raised = "no" THEN value.n
                                 ELSE DEFAULT_LABEL_LINE_SPACING))

\* normalize_label_line_spacing(raw_value)
normalize_label_line_spacing(raw_value) == ClampedSpacing(int(raw_value))

\* what the loop over config_items has done so far
LoopState(raised, normalized, seen_defaults, seen_custom) ==
    [raised |-> raised, normalized |-> normalized,
     seen_defaults |-> seen_defaults, seen_custom |-> seen_custom]

\* the end of the loop body: the entry is appended; size is the outcome of
\* int(raw.get("font_size", ...)), of which OverflowError is not caught
AppendEntry(raw, key, known, default_entry, size, done) ==
    IF size.raised = "OverflowError"
    THEN LoopState("OverflowError", done.normalized, done.seen_defaults,
                   done.seen_custom)
    ELSE LoopState("no",
             Append(done.normalized,
                 Entry(PyStr(key),
                       PyStr(IF raw.print_name.t # "missing"
                             THEN Strip(str(raw.print_name), Whitespace)
                             ELSE Strip(str(default_entry.print_name),
                                        Whitespace)),
                       PyBool(bool(Get(raw.show, default_entry.show))),
                       PyInt(Clamp(8, 120,
                                   IF size.raised = "no" THEN size.n
                                   ELSE default_entry.font_size.n)))),
             IF known THEN done.seen_defaults \cup {key}
             ELSE done.seen_defaults,
             IF known THEN done.seen_custom ELSE done.seen_custom \cup {key})

\* the loop body from the choice of default_entry on, for an item that is
\* kept
KeepItem(raw, key, known, default_entry, done) ==
    AppendEntry(raw, key, known, default_entry,
                int(Get(raw.font_size, default_entry.font_size)), done)

\* the loop body for a dict, key being str(raw.get("key", "")).strip()
NormalizeDict(raw, key, done) ==
    LET known == key \in DOMAIN defaults_by_key
        custom == ~known /\ is_empty_line_key(key)
    IN  IF \/ key = << >>
           \/ known /\ key \in done.seen_defaults
           \/ custom /\ key \in done.seen_custom
           \/ ~known /\ ~custom
        THEN done
        ELSE KeepItem(raw, key, known,
                      IF known THEN defaults_by_key[key]
                      ELSE make_empty_line_entry(key),
                      done)

\* the loop body of normalize_label_field_config for one item of the list
NormalizeItem(raw, done) ==
    IF ~raw.dict THEN done
    ELSE NormalizeDict(raw,
             Strip(str(Get(raw.key, PyStr(<< >>))), Whitespace), done)

\* the loop of normalize_label_field_config over the items of the list,
\* left when an item raises
RECURSIVE NormalizeItems(_, _)
NormalizeItems(items, done) ==
    IF items = << >> \/ done.raised # "no" THEN done
    ELSE NormalizeItems(Tail(items), NormalizeItem(Head(items), done))

\* the second loop of normalize_label_field_config: the known keys not
\* seen are appended in definition order
AppendMissing(done) ==
    LET unseen(entry) == entry.key.s \notin done.seen_defaults
    IN  IF done.raised # "no" THEN Raised(done.raised)
        ELSE Returned(done.normalized
                      \o SelectSeq(default_label_field_config, unseen))

\* normalize_label_field_config(config_items)
normalize_label_field_config(config_items) ==
    AppendMissing(NormalizeItems(IF config_items.list
                                 THEN config_items.items ELSE << >>,
                                 LoopState("no", << >>, {}, {})))

\* json.dump of a value that is not a list or a dict: a JSON text
JsonDump(value) ==
    CASE value.t = "str" -> <<"\"">> \o value.s \o <<"\"">>
      [] value.t = "int" -> IntChars(value.n)
      [] value.t = "bool" -> IF value.b THEN <<"true">> ELSE <<"false">>
      [] value.t = "float" ->
            IF value.s = <<"inf">> THEN <<"Infinity">>
            ELSE IF value.s = <<"nan">> THEN <<"NaN">>
            ELSE str(value)
      [] OTHER -> <<"null">>

\* the tenths a JSON number with one decimal denotes
JsonTenths(text) ==
    LET negative == Head(text) = "-"
        digits == IF negative THEN Tail(text) ELSE text
        point == CHOOSE i \in 1..Len(digits) : digits[i] = "."
        tenths == 10 * DigitsNat(SubSeq(digits, 1, point - 1))
                  + DigitsNat(SubSeq(digits, point + 1, Len(digits)))
    IN  IF negative THEN -tenths ELSE tenths

\* json.load of a JSON text that is not an array or an object; the empty
\* text stands for a key the object does not have
JsonLoad(text) ==
    CASE text = << >> -> Missing
      [] text = <<"true">> -> PyBool(TRUE)
      [] text = <<"false">> -> PyBool(FALSE)
      [] text = <<"null">> -> PyNone
      [] text = <<"Infinity">> -> PyInf
      [] text = <<"NaN">> -> PyNaN
      [] OTHER ->
            IF Head(text) = "\"" THEN PyStr(SubSeq(text, 2, Len(text) - 1))
            ELSE IF \E i \in 1..Len(text) : text[i] = "."
            THEN PyFloat(JsonTenths(text))
            ELSE PyInt(IntOfText(text).n)

\* json.dump of the member of an object: its JSON text, and no text for a
\* key the dict does not have
JsonDumpMember(value) ==
    IF value.t = "missing" THEN << >> ELSE JsonDump(value)

\* json.dump of a config item: the members it has
JsonDumpItem(item) ==
    [dict |-> item.dict, key |-> JsonDumpMember(item.key),
     print_name |-> JsonDumpMember(item.print_name),
     show |-> JsonDumpMember(item.show),
     font_size |-> JsonDumpMember(item.font_size)]

\* json.load of an element of the fields array
JsonLoadItem(item) ==
    [dict |-> item.dict, key |-> JsonLoad(item.key),
     print_name |-> JsonLoad(item.print_name), show |-> JsonLoad(item.show),
     font_size |-> JsonLoad(item.font_size)]

\* a config file: a JSON object with line_spacing and fields, or the JSON
\* array of an older file
ConfigFile(object, line_spacing, fields) ==
    [exists |-> TRUE, object |-> object, line_spacing |-> line_spacing,
     fields |-> fields]

\* what load_label_field_config or save_label_field_config did: the
\* exception raised, the fields and the line spacing returned
ConfigOutcome(raised, value, line_spacing) ==
    [raised |-> raised, value |-> value, line_spacing |-> line_spacing]

\* the return of parse_label_config_payload, or the exception that went
\* through it
Parsed(line_spacing, normalized) ==
    IF line_spacing.raised # "no"
    THEN ConfigOutcome(line_spacing.raised, << >>, 0)
    ELSE IF normalized.raised # "no"
    THEN ConfigOutcome(normalized.raised, << >>, 0)
    ELSE ConfigOutcome("no", normalized.value, line_spacing.value)

\* a payload read as the array of an older file, whatever it is
parse_legacy_payload(data) ==
    Parsed(Returned(DEFAULT_LABEL_LINE_SPACING),
           normalize_label_field_config(NotAList))

\* parse_label_config_payload(data), data being what json.load returned
\* for the file
parse_label_config_payload(data) ==
    Parsed(IF data.object
           THEN normalize_label_line_spacing(
                    Get(JsonLoad(data.line_spacing),
                        PyInt(DEFAULT_LABEL_LINE_SPACING)))
           ELSE Returned(DEFAULT_LABEL_LINE_SPACING),
           normalize_label_field_config(
               PyList([i \in 1..Len(data.fields) |->
                          JsonLoadItem(data.fields[i])])))

\* load_label_field_config(path)
load_label_field_config(file) ==
    IF ~file.exists
    THEN ConfigOutcome("no", default_label_field_config,
                       DEFAULT_LABEL_LINE_SPACING)
    ELSE parse_label_config_payload(file)

\* json.dump of the payload over the file, unless one of the two
\* normalizations has raised
Dumped(file, normalized, spacing) ==
    IF normalized.raised # "no"
    THEN [raised |-> normalized.raised, file |-> file]
    ELSE IF spacing.raised # "no"
    THEN [raised |-> spacing.raised, file |-> file]
    ELSE [raised |-> "no",
          file |-> ConfigFile(TRUE, JsonDump(PyInt(spacing.value)),
                      [i \in 1..Len(normalized.value) |->
                          JsonDumpItem(normalized.value[i])])]

\* save_label_field_config(path, config_items, line_spacing): the exception
\* raised and the file afterwards
save_label_field_config(file, config_items, line_spacing) ==
    Dumped(file, normalize_label_field_config(config_items),
           normalize_label_line_spacing(line_spacing))

\* the items a config list is made of here: something that is not a dict;
\* a known key with every field out of the ordinary; the same key with
\* blanks around it and nothing else; a known key with a print name of
\* None and a font size that is no number; a free-text key twice, with
\* different fields; an unknown key; a dict without key; the last known key
\* with a float font size; a known key with an infinite font size
ConfigItems ==
    { NotADict,
      Entry(PyStr(<<"cut_name">>), PyStr(<<" ", "Steak", " ">>),
            PyBool(FALSE), PyInt(200)),
      Entry(PyStr(<<" ", "cut_name", " ">>), Missing, Missing, Missing),
      Entry(PyStr(<<"weight_kg">>), PyNone, PyStr(<< >>),
            PyStr(<<"a", "b">>)),
      Entry(PyStr(<<EMPTY_LINE_KEY_PREFIX, "1">>), PyStr(<< >>), PyInt(1),
            PyStr(<<" ", "4", "2">>)),
      Entry(PyStr(<<EMPTY_LINE_KEY_PREFIX, "1">>), PyStr(<<"x">>), Missing,
            PyInt(3)),
      Entry(PyStr(<<"bogus">>), PyStr(<<"x">>), PyBool(TRUE), PyInt(30)),
      Entry(Missing, PyStr(<<"x">>), PyBool(TRUE), PyInt(30)),
      Entry(PyStr(<<"packaged_country">>), Missing, PyBool(TRUE),
            PyFloat(245)),
      Entry(PyStr(<<"tax">>), Missing, Missing, PyInf) }

\* the line spacings given to save_label_field_config
LineSpacings ==
    {PyInt(8), PyInt(300), PyInt(-5), PyStr(<<"7">>), PyStr(<<"x">>), PyNone}

\* config files written by hand or by an older version: the array of an
\* older file, an object whose line spacing is 1e999, an object without
\* line_spacing
OldConfigFiles ==
    { ConfigFile(FALSE, << >>,
          <<JsonDumpItem(Entry(PyStr(<<"tax">>), Missing, PyBool(FALSE),
                               PyInt(40)))>>),
      ConfigFile(TRUE, <<"Infinity">>, << >>),
      ConfigFile(TRUE, << >>,
          <<JsonDumpItem(Entry(PyStr(<<"tax">>), PyStr(<<"VAT">>), Missing,
                               PyFloat(305)))>>) }

ConfigCall(fn, config_items, line_spacing, reload) ==
    [fn |-> fn, config_items |-> config_items, line_spacing |-> line_spacing,
     reload |-> reload]

\* a call of normalize_label_field_config on a list or on something that
\* is no list, of save_label_field_config on a list and a line spacing, or
\* of load_label_field_config; the lists hold at most the given number of
\* entries
ConfigCalls(entries) ==
    {ConfigCall("normalize_label_field_config", PyList(items), PyNone, FALSE) :
        items \in TextsUpTo(ConfigItems, entries)}
    \cup {ConfigCall("normalize_label_field_config", NotAList, PyNone, FALSE)}
    \cup {ConfigCall("save_label_field_config", PyList(items), spacing, FALSE) :
            items \in TextsUpTo(ConfigItems, entries - 1),
            spacing \in LineSpacings}
    \cup {ConfigCall("load_label_field_config", NotAList, PyNone, FALSE)}

InitConfig ==
    /\ InitIdle
    /\ call \in ConfigCalls(MaxEntries)
    /\ returned = NotReturned
    /\ printed_labels = {}
    /\ FONT_CACHE = << >>
    /\ label_config_file \in
          IF call.fn = "load_label_field_config"
          THEN {NoFile} \cup OldConfigFiles
          ELSE {NoFile}
    /\ print_log = << >>
    /\ NoScaleRun
    /\ NoLabelEdit

CallNormalize ==
    /\ call.fn = "normalize_label_field_config"
    /\ returned.raised = "pending"
    /\ returned' = normalize_label_field_config(call.config_items)
    /\ UNCHANGED <<appVars, call, printed_labels, FONT_CACHE,
                   label_config_file,
                   print_log, scaleVars, labelVars>>

CallSave ==
    /\ call.fn = "save_label_field_config"
    /\ returned.raised = "pending"
    /\ \E saved \in {save_label_field_config(label_config_file,
                         call.config_items, call.line_spacing)} :
          /\ label_config_file' = saved.file
          /\ returned' = ConfigOutcome(saved.raised, << >>, 0)
    /\ UNCHANGED <<appVars, call, printed_labels, FONT_CACHE, print_log,
                   scaleVars, labelVars>>

\* load_label_field_config, of a file as it was found or of the file a
\* save_label_field_config has just written
CallLoad ==
    /\ \/ call.fn = "load_label_field_config" /\ returned.raised = "pending"
       \/ call.fn = "save_label_field_config" /\ returned.raised = "no"
    /\ call' = [call EXCEPT !.fn = "load_label_field_config",
                            !.reload = call.fn = "save_label_field_config"]
    /\ returned' = load_label_field_config(label_config_file)
    /\ UNCHANGED <<appVars, printed_labels, FONT_CACHE, label_config_file,
                   print_log, scaleVars, labelVars>>

NextConfig == CallNormalize \/ CallSave \/ CallLoad

SpecConfig == InitConfig /\ [][NextConfig]_vars

-----------------------------------------------------------------------------
(* build_label_image and load_font.  The image is held as the operations    *)
(* that draw it, in order: the logo pasted, each text with its position and *)
(* font, the QR code with its payload.  What the fonts directory and the    *)
(* logo file hold is given with the call and does not change.               *)

LABEL_WIDTH == 1109

\* margin in build_label_image
Margin == 28

\* a font: the place in FONT_CANDIDATES of the file it was loaded from and
\* its size
Font(face, size) == [face |-> face, size |-> size]

\* ImageFont.load_default(): the same font for every size
DefaultFont == Font(0, 0)

\* what load_font returns: the font and FONT_CACHE afterwards
Loaded(font, cache) == [font |-> font, cache |-> cache]

\* the font load_font loads for a size that is not cached: the first of
\* FONT_CANDIDATES that ImageFont.truetype can load, at place installed, or
\* the default font when it can load none (installed = 0)
Truetype(installed, size) ==
    IF installed = 0 THEN DefaultFont ELSE Font(installed, size)

\* a font that was cached for some size, whatever size is asked for
load_cached_font(cache, size, installed) ==
    IF DOMAIN cache # {}
    THEN Loaded(cache[CHOOSE cached \in DOMAIN cache : TRUE], cache)
    ELSE Loaded(Truetype(installed, size), (size :> Truetype(installed, size)))

\* load_font(size), with FONT_CACHE and what is installed
load_font(cache, size, installed) ==
    IF size \in DOMAIN cache THEN Loaded(cache[size], cache)
    ELSE Loaded(Truetype(installed, size),
                cache @@ (size :> Truetype(installed, size)))

\* FONT_CACHE after the module is imported: FONT_TITLE, FONT_MAIN and
\* FONT_SMALL are loaded
ImportedFonts(installed) ==
    load_font(load_font(load_font(<< >>, 54, installed).cache,
                        34, installed).cache,
              24, installed).cache

\* an operation on the image
Op(kind, x, y, content, font) ==
    [kind |-> kind, x |-> x, y |-> y, content |-> content, font |-> font]

\* the label while it is composed: the exception raised, the operations so
\* far, the cursor y and FONT_CACHE
Canvas(raised, ops, y, cache) ==
    [raised |-> raised, ops |-> ops, y |-> y, cache |-> cache]

\* draw.text((margin, y), line, fill="black", font=...), the font being
\* what load_font has returned
DrawText(line, loaded, canvas) ==
    Canvas(canvas.raised,
           Append(canvas.ops, Op("text", Margin, canvas.y, line, loaded.font)),
           canvas.y, loaded.cache)

\* y += font_size + spacing
Advance(canvas, font_size, spacing) ==
    Canvas(canvas.raised, canvas.ops, canvas.y + font_size + spacing,
           canvas.cache)

\* a free-text entry that moves the cursor only when it has a text
FreeTextLineIfText(free_text, font_size, spacing, installed, canvas) ==
    IF free_text # << >>
    THEN Advance(DrawText(free_text,
                          load_font(canvas.cache, font_size, installed),
                          canvas),
                 font_size, spacing)
    ELSE canvas

\* the loop body for a free-text entry, free_text being its stripped
\* print name
FreeTextLine(free_text, font_size, spacing, installed, canvas) ==
    IF free_text # << >>
    THEN Advance(DrawText(free_text,
                          load_font(canvas.cache, font_size, installed),
                          canvas),
                 font_size, spacing)
    ELSE Advance(canvas, font_size, spacing)

\* LABEL_FIELD_LABELS.get(key, key)
FieldLabel(key) ==
    IF \E i \in 1..Len(LABEL_FIELD_DEFS) : <<LABEL_FIELD_DEFS[i][1]>> = key
    THEN <<LABEL_FIELD_DEFS[CHOOSE i \in 1..Len(LABEL_FIELD_DEFS) :
                               <<LABEL_FIELD_DEFS[i][1]>> = key][2]>>
    ELSE key

\* f"{print_name}: {value}" if print_name else value
FieldText(print_name, value) ==
    IF print_name # << >> THEN print_name \o <<":", " ">> \o value ELSE value

\* the loop body for a field that is not the logo, value being its stripped
\* value
FieldLine(entry, key, value, font_size, spacing, installed, canvas) ==
    IF value = << >> THEN canvas
    ELSE Advance(DrawText(FieldText(Strip(str(Get(entry.print_name,
                                                  PyStr(FieldLabel(key)))),
                                          Whitespace),
                                    value),
                          load_font(canvas.cache, font_size, installed),
                          canvas),
                 font_size, spacing)

\* label_values.get(key, "")
ValueOf(label_values, key) ==
    IF key \in DOMAIN label_values THEN label_values[key] ELSE PyStr(<< >>)

\* the loop body for an entry that is shown, size being the outcome of
\* int(entry.get("font_size", 24)), of which OverflowError is not caught
ShownEntry(entry, key, size, label_values, spacing, installed, canvas) ==
    IF size.raised = "OverflowError"
    THEN Canvas("OverflowError", canvas.ops, canvas.y, canvas.cache)
    ELSE IF is_empty_line_key(key)
    THEN FreeTextLine(Strip(str(Get(entry.print_name, PyStr(<< >>))),
                            Whitespace),
                      Clamp(8, 120, IF size.raised = "no" THEN size.n ELSE 24),
                      spacing, installed, canvas)
    ELSE IF key = <<"logo_path">> THEN canvas
    ELSE FieldLine(entry, key,
                   Strip(str(ValueOf(label_values, key)), Whitespace),
                   Clamp(8, 120, IF size.raised = "no" THEN size.n ELSE 24),
                   spacing, installed, canvas)

\* the loop body of build_label_image for one entry; an item that is no
\* dict has no get, and the AttributeError is not caught
ComposeEntry(entry, label_values, spacing, installed, canvas) ==
    IF ~entry.dict
    THEN Canvas("AttributeError", canvas.ops, canvas.y, canvas.cache)
    ELSE IF ~bool(Get(entry.show, PyBool(TRUE))) THEN canvas
    ELSE ShownEntry(entry, Strip(str(Get(entry.key, PyStr(<< >>))), Whitespace),
                    int(Get(entry.font_size, PyInt(24))),
                    label_values, spacing, installed, canvas)

\* the loop of build_label_image over label_field_config
RECURSIVE ComposeEntries(_, _, _, _, _)
ComposeEntries(entries, label_values, spacing, installed, canvas) ==
    IF entries = << >> \/ canvas.raised # "no" THEN canvas
    ELSE ComposeEntries(Tail(entries), label_values, spacing, installed,
             ComposeEntry(Head(entries), label_values, spacing, installed,
                          canvas))

\* bool(logo_entry.get("show", False)), logo_entry being the last entry of
\* the config with the key logo_path
ShowLogo(label_field_config) ==
    LET logos == {i \in 1..Len(label_field_config) :
                     /\ label_field_config[i].dict
                     /\ Strip(str(Get(label_field_config[i].key,
                                      PyStr(<< >>))), Whitespace)
                            = <<"logo_path">>}
    IN  /\ logos # {}
        /\ bool(Get(label_field_config[CHOOSE i \in logos :
                                           \A j \in logos : j <= i].show,
                    PyBool(FALSE)))

\* the start of build_label_image: the logo is pasted at the top right if
\* it is shown, has a path and the file can be opened.  logo_width: the
\* width of the thumbnail, 0 when the file does not exist or is no image
PasteLogo(label_values, label_field_config, logo_width, cache) ==
    IF /\ ShowLogo(label_field_config)
       /\ Strip(str(ValueOf(label_values, <<"logo_path">>)), Whitespace) # << >>
       /\ logo_width > 0
    THEN Canvas("no",
                <<Op("logo", LABEL_WIDTH - Margin - logo_width, Margin,
                     Strip(str(ValueOf(label_values, <<"logo_path">>)),
                           Whitespace),
                     DefaultFont)>>,
                Margin, cache)
    ELSE Canvas("no", << >>, Margin, cache)

\* qr_payload
QrPayload(label_values) ==
    [key \in DOMAIN label_values \ {<<"logo_path">>} |-> label_values[key]]

\* the end of build_label_image: the QR code is pasted at the bottom right
PasteQr(label_values, canvas) ==
    IF canvas.raised # "no" THEN canvas
    ELSE Canvas("no",
                Append(canvas.ops,
                       Op("qr", LABEL_WIDTH - Margin - 240, 696 - Margin - 240,
                          QrPayload(label_values), DefaultFont)),
                canvas.y, canvas.cache)

\* the loop of build_label_image, spacing being what
\* normalize_label_line_spacing returned or raised
ComposeLines(label_values, label_field_config, spacing, installed, canvas) ==
    IF spacing.raised # "no"
    THEN Canvas(spacing.raised, canvas.ops, canvas.y, canvas.cache)
    ELSE ComposeEntries(label_field_config, label_values, spacing.value,
                        installed, canvas)

\* build_label_image(label_values, label_field_config, line_spacing), with
\* what the file system holds and FONT_CACHE
build_label_image(label_values, label_field_config, line_spacing, installed, logo_width, cache) ==
    PasteQr(label_values,
        ComposeLines(label_values, label_field_config,
                     normalize_label_line_spacing(line_spacing), installed,
                     PasteLogo(label_values, label_field_config, logo_width,
                               cache)))

\* label_values as update_preview builds them: every known key with its
\* stripped text
Values(cut_name, weight_kg, tax, logo_path) ==
    [key \in DOMAIN defaults_by_key |->
        PyStr(CASE key = <<"cut_name">> -> cut_name
                [] key = <<"weight_kg">> -> weight_kg
                [] key = <<"tax">> -> tax
                [] key = <<"logo_path">> -> logo_path
                [] OTHER -> << >>)]

\* the values composed here: nothing filled in; a cut, a weight and a logo;
\* a tax and a logo
LabelValues ==
    { Values(<< >>, << >>, << >>, << >>),
      Values(<<"a">>, <<"1", ".", "0", "0", "0", "0">>, << >>, <<"l">>),
      Values(<< >>, << >>, <<"7">>, <<"l">>) }

\* the items the config lists of the labels composed here are made of: a
\* free-text line without text; one with a text and a font size above 120;
\* a hidden one; the cut without print name; the weight hidden; the logo
\* shown
ComposeItems ==
    { Entry(PyStr(<<EMPTY_LINE_KEY_PREFIX, "1">>), PyStr(<< >>), PyBool(TRUE),
            PyInt(24)),
      Entry(PyStr(<<EMPTY_LINE_KEY_PREFIX, "2">>), PyStr(<<"x">>),
            PyBool(TRUE), PyInt(200)),
      Entry(PyStr(<<EMPTY_LINE_KEY_PREFIX, "3">>), PyStr(<<"x">>),
            PyBool(FALSE), PyInt(40)),
      Entry(PyStr(<<"cut_name">>), PyStr(<< >>), PyBool(TRUE), PyInt(52)),
      Entry(PyStr(<<"weight_kg">>), Missing, PyBool(FALSE), PyInt(34)),
      Entry(PyStr(<<"logo_path">>), Missing, PyBool(TRUE), PyInt(24)) }

\* the application composes with a normalized config
ComposeConfigs ==
    {normalize_label_field_config(PyList(items)).value :
        items \in TextsUpTo(ComposeItems, MaxLines)}

ComposeCall(label_values, label_field_config, line_spacing, installed, logo_width) ==
    [fn |-> "build_label_image", label_values |-> label_values,
     label_field_config |-> label_field_config,
     line_spacing |-> line_spacing, installed |-> installed,
     logo_width |-> logo_width]

ComposeCalls ==
    {ComposeCall(label_values, label_field_config, line_spacing, installed,
                 logo_width) :
        label_values \in LabelValues, label_field_config \in ComposeConfigs,
        line_spacing \in {PyInt(0), PyInt(DEFAULT_LABEL_LINE_SPACING)},
        installed \in {0, 1}, logo_width \in {0, 250}}

\* labels composed in between: the default label of a cut, and a label with
\* one large free-text line
OtherLabels ==
    { [label_values |-> Values(<<"a">>, << >>, << >>, << >>),
       label_field_config |-> default_label_field_config,
       line_spacing |-> PyInt(DEFAULT_LABEL_LINE_SPACING)],
      [label_values |-> Values(<< >>, << >>, << >>, << >>),
       label_field_config |->
           <<Entry(PyStr(<<EMPTY_LINE_KEY_PREFIX, "9">>), PyStr(<<"x">>),
                   PyBool(TRUE), PyInt(100))>>,
       line_spacing |-> PyInt(0)] }

\* what a composition gave: the exception raised, the operations of the
\* image, the cursor when the loop ended, and how often the label of the
\* call has been composed
Composed(raised, value, y, nth) ==
    [raised |-> raised, value |-> value, y |-> y, nth |-> nth]

InitCompose ==
    /\ InitIdle
    /\ call \in ComposeCalls
    /\ returned = Composed("pending", << >>, 0, 0)
    /\ printed_labels = {}
    /\ FONT_CACHE = ImportedFonts(call.installed)
    /\ label_config_file = NoFile
    /\ print_log = << >>
    /\ NoScaleRun
    /\ NoLabelEdit

\* build_label_image on the label of the call
CallBuildLabelImage ==
    /\ call.fn = "build_label_image"
    /\ returned.nth < MaxCompositions
    /\ \E canvas \in {build_label_image(call.label_values,
                          call.label_field_config, call.line_spacing,
                          call.installed, call.logo_width, FONT_CACHE)} :
          /\ returned' = Composed(canvas.raised, canvas.ops, canvas.y,
                                  returned.nth + 1)
          /\ FONT_CACHE' = canvas.cache
    /\ UNCHANGED <<appVars, call, printed_labels, label_config_file,
                   print_log, scaleVars, labelVars>>

\* build_label_image on another label, in the same process
ComposeOther ==
    /\ call.fn = "build_label_image"
    /\ \E other \in OtherLabels :
          FONT_CACHE' = build_label_image(other.label_values,
                            other.label_field_config, other.line_spacing,
                            call.installed, call.logo_width, FONT_CACHE).cache
    /\ UNCHANGED <<appVars, call, returned, printed_labels,
                   label_config_file,
                   print_log, scaleVars, labelVars>>

NextCompose == CallBuildLabelImage \/ ComposeOther

SpecCompose == InitCompose /\ [][NextCompose]_vars

-----------------------------------------------------------------------------
(* The line parsers: the body of the read loop of _scale_monitor_worker and *)
(* the body of the loop of main in scale.py, on one raw line.  A raw line   *)
(* is a sequence of bytes; "invalid" is a byte that is no valid UTF-8 and   *)
(* "LF" the line feed.  A value is held in units of 0.00001 kg.             *)

\* the bytes a raw line is made of here
LineBytes ==
    {"1", "5", ".", "-", "+", " ", "k", "K", "g", "G", "x", "invalid", "LF"}

\* what str.strip() removes and \s matches
LineWhitespace == {" ", "LF"}

\* what \d matches
Digits == {DigitChars[d + 1] : d \in 0..9}

\* the outcome of bytes.decode: the exception raised and the text
Decoded(raised, text) == [raised |-> raised, text |-> text]

\* raw.decode(): a byte that is no valid UTF-8 raises
DecodeStrict(raw) ==
    IF \E i \in 1..Len(raw) : raw[i] = "invalid"
    THEN Decoded("UnicodeDecodeError", << >>)
    ELSE Decoded("no", raw)

\* raw.decode(errors="ignore"): the bytes that are no valid UTF-8 are
\* dropped
Decode(raw) ==
    Decoded("no", SelectSeq(raw, LAMBDA byte : byte # "invalid"))

\* the position after the longest run of characters of the class that
\* starts at position i
RECURSIVE RunEnd(_, _, _)
RunEnd(line, class, i) ==
    IF i <= Len(line) /\ line[i] \in class THEN RunEnd(line, class, i + 1)
    ELSE i

\* [-+]? at position i: the position after it
AfterSign(line, i) ==
    IF i <= Len(line) /\ line[i] \in {"-", "+"} THEN i + 1 ELSE i

\* (?:\.\d+)? at position i: the position after it
AfterFraction(line, i) ==
    IF /\ i <= Len(line)
       /\ line[i] = "."
       /\ RunEnd(line, Digits, i + 1) > i + 1
    THEN RunEnd(line, Digits, i + 1)
    ELSE i

\* kg at position i, in any case only under re.IGNORECASE
UnitAt(line, i, ignore_case) ==
    /\ i + 1 <= Len(line)
    /\ line[i] = "k" \/ (ignore_case /\ line[i] = "K")
    /\ line[i + 1] = "g" \/ (ignore_case /\ line[i + 1] = "G")

\* a match object, or None: whether the pattern matched, and group(1)
Match(matched, group) == [matched |-> matched, group |-> group]

\* the pattern ([-+]?\d+(?:\.\d+)?)\s*kg tried at position i.  Each part
\* takes the longest text it can; no shorter one lets the rest match
MatchAt(line, i, ignore_case) ==
    LET digits_from == AfterSign(line, i)
        digits_to == RunEnd(line, Digits, digits_from)
        number_to == AfterFraction(line, digits_to)
    IN  Match(/\ digits_to > digits_from
              /\ UnitAt(line, RunEnd(line, LineWhitespace, number_to), ignore_case),
              SubSeq(line, i, number_to - 1))

\* pattern.search(line) from position i on: the first position that matches
RECURSIVE SearchFrom(_, _, _)
SearchFrom(line, i, ignore_case) ==
    IF i > Len(line) THEN Match(FALSE, << >>)
    ELSE IF MatchAt(line, i, ignore_case).matched
    THEN MatchAt(line, i, ignore_case)
    ELSE SearchFrom(line, i + 1, ignore_case)

\* SCALE_VALUE_RE.search(line) of label.py
SCALE_VALUE_RE(line) == SearchFrom(line, 1, TRUE)

\* VALUE_RE.search(line) of scale.py
VALUE_RE(line) == SearchFrom(line, 1, FALSE)

RECURSIVE Pow10(_)
Pow10(n) == IF n = 0 THEN 1 ELSE 10 * Pow10(n - 1)

\* the value of digits, an optional point and digits, in units of
\* 0.00001 kg, of a text with at most five decimals
UnsignedValue(text, point) ==
    IF point > Len(text) THEN 100000 * DigitsNat(text)
    ELSE 100000 * DigitsNat(SubSeq(text, 1, point - 1))
         + DigitsNat(SubSeq(text, point + 1, Len(text)))
           * Pow10(5 - (Len(text) - point))

\* float(text) of a text that group(1) can be
float(text) ==
    IF Head(text) = "-"
    THEN -UnsignedValue(Tail(text), RunEnd(Tail(text), Digits, 1))
    ELSE IF Head(text) = "+"
    THEN UnsignedValue(Tail(text), RunEnd(Tail(text), Digits, 1))
    ELSE UnsignedValue(text, RunEnd(text, Digits, 1))

\* a float
SomeFloat(val) == [some |-> TRUE, val |-> val]

\* what the body of the read loop of _scale_monitor_worker did with a line:
\* the exception raised in it, the value handed over with self.after, and
\* where the worker goes on, at readline or in the except clause
WorkerOutcome(raised, value) ==
    [raised |-> raised, value |-> value,
     at |-> IF raised = "no" THEN "readline" ELSE "except"]

\* the loop body from SCALE_VALUE_RE.search on
WorkerMatch(match) ==
    IF ~match.matched THEN WorkerOutcome("no", NoFloat)
    ELSE WorkerOutcome("no", SomeFloat(float(match.group)))

\* the loop body from the decoded line on
WorkerLine(decoded) ==
    IF decoded.raised # "no" THEN WorkerOutcome(decoded.raised, NoFloat)
    ELSE IF Strip(decoded.text, LineWhitespace) = << >>
    THEN WorkerOutcome("no", NoFloat)
    ELSE WorkerMatch(SCALE_VALUE_RE(Strip(decoded.text, LineWhitespace)))

\* the body of the read loop of _scale_monitor_worker for what readline
\* returned
WorkerLoopBody(raw) ==
    IF raw = << >> THEN WorkerOutcome("no", NoFloat)
    ELSE WorkerLine(Decode(raw))

\* what the body of the loop of main in scale.py did with a line: the
\* exception raised in it, the value parsed, what was printed, the three
\* variables of the loop, and where main goes on
MainOutcome(raised, value, printed, last_value, stable_count, last_printed_value) ==
    [raised |-> raised, value |-> value, printed |-> printed,
     last_value |-> last_value, stable_count |-> stable_count,
     last_printed_value |-> last_printed_value,
     at |-> IF raised = "no" THEN "readline" ELSE "finally"]

\* a loop that prints a value that was not printed last at its first
\* reading
MainPrintAtOnce(value, stable_count, last_printed_value) ==
    IF SomeFloat(value) # last_printed_value
    THEN MainOutcome("no", SomeFloat(value), "value", SomeFloat(value),
                     stable_count, SomeFloat(value))
    ELSE MainOutcome("no", SomeFloat(value), "nothing", SomeFloat(value),
                     stable_count, last_printed_value)

\* the end of the loop body of main for a value, stable_count being already
\* counted
MainPrint(value, stable_count, last_printed_value) ==
    IF stable_count >= STABLE_ITERATIONS
       /\ SomeFloat(value) # last_printed_value
    THEN MainOutcome("no", SomeFloat(value), "value", SomeFloat(value),
                     stable_count, SomeFloat(value))
    ELSE MainOutcome("no", SomeFloat(value), "nothing", SomeFloat(value),
                     stable_count, last_printed_value)

\* a loop that forgets the value it printed when the reading changes, as
\* the tracker of the application does
MainValueForgetting(value, loop) ==
    MainPrint(value,
              IF SomeFloat(value) = loop.last_value
              THEN loop.stable_count + 1 ELSE 1,
              IF SomeFloat(value) = loop.last_value
              THEN loop.last_printed_value ELSE NoFloat)

\* the loop body of main for a value
MainValue(value, loop) ==
    MainPrint(value,
              IF SomeFloat(value) = loop.last_value
              THEN loop.stable_count + 1 ELSE 1,
              loop.last_printed_value)

\* the loop body of main from VALUE_RE.search on
MainMatch(match, loop) ==
    IF match.matched THEN MainValue(float(match.group), loop)
    ELSE MainOutcome("no", NoFloat, "Unparsed line", loop.last_value,
                     loop.stable_count, loop.last_printed_value)

\* the loop body of main from the decoded line on; UnicodeDecodeError is
\* caught
MainLine(decoded, loop) ==
    IF decoded.raised # "no" \/ Strip(decoded.text, LineWhitespace) = << >>
    THEN MainOutcome("no", NoFloat, "nothing", loop.last_value,
                     loop.stable_count, loop.last_printed_value)
    ELSE MainMatch(VALUE_RE(Strip(decoded.text, LineWhitespace)), loop)

\* the body of the loop of main in scale.py for what readline returned
MainLoopBody(raw, loop) == MainLine(Decode(raw), loop)

\* lines of the make the scale sends: something before the number, the
\* number, blanks or an invalid byte, the unit in some case or broken, and
\* the line end
ScaleLines ==
    {before \o number \o between \o unit \o ending :
        before \in {<< >>, <<"x", " ">>, <<"+", " ">>, <<"1", ".">>},
        number \in {<<"1">>, <<"-", "1">>, <<"1", ".", "5">>, <<"1", "5">>},
        between \in {<< >>, <<" ">>, <<" ", " ">>, <<"invalid">>},
        unit \in {<<"k", "g">>, <<"K", "G">>, <<"K", "g">>, <<"k", "G">>,
                  <<"k">>, <<"k", " ", "g">>},
        ending \in {<< >>, <<"LF">>}}

\* the raw lines read here
RawLines == TextsUpTo(LineBytes, MaxLine) \cup ScaleLines

\* the variables of the loop of main when the line is read
LoopVariables(last_value, stable_count, last_printed_value) ==
    [last_value |-> last_value, stable_count |-> stable_count,
     last_printed_value |-> last_printed_value]

\* at the start; after nine readings of 1 kg; after 1 kg was printed
MainLoops ==
    { LoopVariables(NoFloat, 0, NoFloat),
      LoopVariables(SomeFloat(100000), 9, NoFloat),
      LoopVariables(SomeFloat(100000), 10, SomeFloat(100000)) }

LineCall(fn, raw, loop) == [fn |-> fn, raw |-> raw, loop |-> loop]

\* every raw line to both readers, main at its start; the lines of the scale
\* to main in every state of its loop
LineCalls ==
    {c \in [fn : {"_scale_monitor_worker", "main"}, raw : RawLines,
            loop : MainLoops] :
        \/ c.loop = LoopVariables(NoFloat, 0, NoFloat)
        \/ c.fn = "main" /\ c.raw \in ScaleLines}

InitLine ==
    /\ InitIdle
    /\ call \in LineCalls
    /\ returned = NotReturned
    /\ printed_labels = {}
    /\ FONT_CACHE = << >>
    /\ label_config_file = NoFile
    /\ print_log = << >>
    /\ NoScaleRun
    /\ NoLabelEdit

\* one pass of the read loop of _scale_monitor_worker, the application
\* being open
WorkerReadsLine ==
    /\ call.fn = "_scale_monitor_worker"
    /\ returned.raised = "pending"
    /\ returned' = WorkerLoopBody(call.raw)
    /\ UNCHANGED <<appVars, call, printed_labels, FONT_CACHE,
                   label_config_file,
                   print_log, scaleVars, labelVars>>

\* one pass of the loop of main in scale.py
MainReadsLine ==
    /\ call.fn = "main"
    /\ returned.raised = "pending"
    /\ returned' = MainLoopBody(call.raw, call.loop)
    /\ UNCHANGED <<appVars, call, printed_labels, FONT_CACHE,
                   label_config_file,
                   print_log, scaleVars, labelVars>>

NextLine == WorkerReadsLine \/ MainReadsLine

SpecLine == InitLine /\ [][NextLine]_vars

-----------------------------------------------------------------------------
(* get_required_stable_iterations called on its own, for every text the    *)
(* "Stable iterations" spinbox variable can be set to.                      *)

\* the characters typed into the spinbox here
SpinChars == {"0", "1", "2", "-", "+", " ", ".", "x"}

\* int(self.stable_iterations_var.get()), the variable being a StringVar:
\* the text is an integer or int raises ValueError
SpinValue(text) ==
    [valid |-> IntOfText(text).raised = "no", n |-> IntOfText(text).n]

\* get_required_stable_iterations, of the characters of the spinbox text
required_stable_iterations(text) == RequiredOf(SpinValue(text))

SpinTexts == TextsUpTo(SpinChars, MaxSpin)

InitStable ==
    /\ InitIdle
    /\ call \in [fn : {"get_required_stable_iterations"}, text : SpinTexts]
    /\ returned = NotReturned
    /\ printed_labels = {}
    /\ FONT_CACHE = << >>
    /\ label_config_file = NoFile
    /\ print_log = << >>
    /\ NoScaleRun
    /\ NoLabelEdit

CallRequiredStableIterations ==
    /\ call.fn = "get_required_stable_iterations"
    /\ returned.raised = "pending"
    /\ returned' = Returned(required_stable_iterations(call.text))
    /\ UNCHANGED <<appVars, call, printed_labels, FONT_CACHE,
                   label_config_file,
                   print_log, scaleVars, labelVars>>

NextStable == CallRequiredStableIterations

SpecStable == InitStable /\ [][NextStable]_vars

-----------------------------------------------------------------------------
(* main of scale.py run on its own: the loop reads line after line until   *)
(* the user stops it with Ctrl+C.                                          *)

\* the lines the scale sends here: 1 kg written in two ways, 5 kg, 1 kg
\* with the unit in capitals, which VALUE_RE does not match, and a line
\* that is blank
ScaleRunLines ==
    { <<"1", "k", "g", "LF">>,
      <<"1", ".", "0", "k", "g", "LF">>,
      <<"5", "k", "g", "LF">>,
      <<"1", "K", "G", "LF">>,
      <<"LF">> }

\* scale_run after a pass of the loop: a value that equals the one read
\* before it goes on with the run, another value begins a run, a line
\* without a value is no reading; the two values printed last are kept
RunAfter(run, out) ==
    IF ~out.value.some THEN run
    ELSE [value |-> out.value,
          len |-> IF out.value = run.value THEN run.len + 1 ELSE 1,
          prints |-> Min2((IF out.value = run.value THEN run.prints ELSE 0)
                          + (IF out.printed = "value" THEN 1 ELSE 0)),
          last_print |-> IF out.printed = "value" THEN out.value
                         ELSE run.last_print,
          printed_before |-> IF out.printed = "value" THEN run.last_print
                             ELSE run.printed_before]

InitScale ==
    /\ InitIdle
    /\ call = [fn |-> "main"]
    /\ returned = NotReturned
    /\ printed_labels = {}
    /\ FONT_CACHE = << >>
    /\ label_config_file = NoFile
    /\ print_log = << >>
    /\ NoScaleRun
    /\ NoLabelEdit

\* one pass of the loop of main: readline returns a line
MainReadsNext ==
    /\ call.fn = "main"
    /\ scale_loop.at = "readline"
    /\ \E raw \in ScaleRunLines :
       \E out \in {MainLoopBody(raw,
                       LoopVariables(scale_loop.last_value,
                                     scale_loop.stable_count,
                                     scale_loop.last_printed_value))} :
          /\ out.stable_count <= MaxReadings
          /\ scale_loop' = out
          /\ scale_run' = RunAfter(scale_run, out)
    /\ UNCHANGED <<appVars, call, returned, printed_labels, FONT_CACHE,
                   label_config_file, print_log, labelVars>>

\* Ctrl+C while readline blocks: except KeyboardInterrupt, then the finally
\* clause closes the port and main returns
MainInterrupted ==
    /\ call.fn = "main"
    /\ scale_loop.at = "readline"
    /\ scale_loop' = [scale_loop EXCEPT !.raised = "KeyboardInterrupt",
                                        !.printed = "Stopping...",
                                        !.at = "finally"]
    /\ UNCHANGED <<appVars, call, returned, printed_labels, FONT_CACHE,
                   label_config_file, print_log, scale_run, labelVars>>

NextScale == MainReadsNext \/ MainInterrupted

SpecScale == InitScale /\ [][NextScale]_vars

-----------------------------------------------------------------------------
(* The label inputs and the preview: the scale session of SpecWorker with   *)
(* a user who picks an item, types in an entry of the session window and   *)
(* applies a line spacing in the label config window.                       *)
(* Every write of a Tk variable runs its write traces before the handler    *)
(* goes on.  The field list of the label config stays the default one.      *)

\* the item of the database: "T", 2.50 per kg, tax "7"
Items ==
    {[cut_name |-> <<"T">>,
      price_per_kg |-> [kind |-> "num", neg |-> FALSE, mag |-> 25000],
      tax |-> <<"7">>]}

\* what the user types in a session field and in the line spacing entry
SessionTexts == {<< >>, <<" ", "F">>}

SpacingTexts == {PyStr(<<"7">>), PyStr(<<"x">>)}

\* on_item_button: cut name, price and tax are written in this order; the
\* write trace of the price runs update_total_price, whose write of the
\* total price requests the rebuild
OnItemButton ==
    /\ Interactive
    /\ \E item \in Items :
          /\ label_inputs' =
                [label_inputs EXCEPT
                    !.cut_name = item.cut_name,
                    !.price_per_kg = item.price_per_kg,
                    !.total_price = update_total_price(current_weight_var,
                                                       item.price_per_kg),
                    !.tax = item.tax]
          /\ preview_update_job' =
                request_preview_update(
                    request_preview_update(
                        request_preview_update(preview_update_job)))
    /\ run_switched_on' = FALSE
    /\ UNCHANGED <<workerVars, queue, scale_status_var, current_weight_var,
                   trackerVars, auto_print_in_progress, optionVars, stack,
                   closed, current_label_image, dispatchVars, queue_limit,
                   functionVars, image_values, historyVars>>

\* a write of a session variable: a key typed in an entry of the session
\* window, or load_session_from_file, which writes the variable whether
\* its text changes or not.  The write trace runs on every write; the
\* second trace, request_session_autosave, touches nothing that is held
\* here
EditSessionField ==
    /\ Interactive
    /\ \E text \in SessionTexts :
          label_inputs' = [label_inputs EXCEPT !.session = text]
    /\ preview_update_job' = request_preview_update(preview_update_job)
    /\ run_switched_on' = FALSE
    /\ UNCHANGED <<workerVars, queue, scale_status_var, current_weight_var,
                   trackerVars, auto_print_in_progress, optionVars, stack,
                   closed, current_label_image, dispatchVars, queue_limit,
                   functionVars, image_values, historyVars>>

\* save_label_field_config(LABEL_CONFIG_PATH, config, line_spacing) for the
\* default field list and each line spacing normalize_label_line_spacing
\* returns: path.open("w") truncates the file, so what is written does not
\* depend on what the file held
SavedDefaultConfig ==
    [n \in 0..120 |->
        save_label_field_config(NoFile, PyList(default_label_field_config),
                                PyInt(n))]

\* set_label_field_config(config_items, line_spacing, save_default) with
\* the default field list: the line spacing is replaced, the config is
\* saved if asked (save_label_field_config writes the file over; its
\* open(path, "w") raises OSError for a file that cannot be written, and
\* the exception leaves the function with the file as it was) and the
\* rebuild is requested last.  When normalize_label_line_spacing raises
\* (OverflowError for a float infinity) the line spacing stays, nothing is
\* saved and no rebuild is requested.
set_label_field_config(inputs, job, file, line_spacing, save_default, writable) ==
    LET spacing == normalize_label_line_spacing(line_spacing)
        applied == [inputs EXCEPT !.line_spacing = spacing.value]
    IN  IF spacing.raised # "no"
        THEN [raised |-> spacing.raised, inputs |-> inputs, job |-> job,
              file |-> file]
        ELSE IF ~save_default
        THEN [raised |-> "no", inputs |-> applied,
              job |-> request_preview_update(job), file |-> file]
        ELSE IF ~writable
        THEN [raised |-> "OSError", inputs |-> applied, job |-> job,
              file |-> file]
        ELSE [raised |-> "no", inputs |-> applied,
              job |-> request_preview_update(job),
              file |-> SavedDefaultConfig[spacing.value].file]

\* LabelConfigWindow.apply_to_app: Apply saves the config as the default
\* one, the other buttons of the window do not
ApplyLabelConfig ==
    /\ Interactive
    /\ \E text \in SpacingTexts, save_default \in BOOLEAN, writable \in BOOLEAN :
          \E set \in {set_label_field_config(label_inputs, preview_update_job,
                          label_config_file,
                          PyInt(normalize_label_line_spacing(text).value),
                          save_default, writable)} :
             /\ label_inputs' = set.inputs
             /\ preview_update_job' = set.job
             /\ label_config_file' = set.file
    /\ run_switched_on' = FALSE
    /\ UNCHANGED <<workerVars, queue, scale_status_var, current_weight_var,
                   trackerVars, auto_print_in_progress, optionVars, stack,
                   closed, current_label_image, dispatchVars, queue_limit,
                   call, returned, printed_labels, FONT_CACHE, print_log,
                   scaleVars, image_values, historyVars>>

NextPreview ==
    \/ NextWorker
    \/ OnItemButton
    \/ EditSessionField
    \/ ApplyLabelConfig

\* the Tk event loop runs the timer of the preview job; nothing else is
\* taken to happen
SpecPreview ==
    /\ Init
    /\ [][NextPreview]_vars
    /\ WF_vars(RunPreviewUpdate)

-----------------------------------------------------------------------------
(* Steps and states the properties speak about *)

\* the control context runs _on_live_scale_value for the head of the queue
LiveStep ==
    /\ queue # << >>
    /\ Head(queue).type = "live"
    /\ queue' = Tail(queue)
    /\ closed' = closed

\* the control context runs _set_scale_offline_status
OfflineStep ==
    /\ queue # << >>
    /\ Head(queue).type = "offline"
    /\ queue' = Tail(queue)
    /\ closed' = closed

\* a step in which a print handler is entered and starts a dispatch
StartsPrint == Len(stack') > Len(stack)

\* frames whose handler is inside the print CLI retry loop
Executing == {i \in 1..Len(stack) : stack[i].pc = "attempt"}

\* the weight shown is a number of magnitude at least 0.01 kg
AtLeastFloor(text) ==
    /\ text.kind = "num"
    /\ text.mag >= MIN_PRINT_WEIGHT_KG

-----------------------------------------------------------------------------
(* Properties *)

\* C1: with the option on, a fixed required count N, a weight at or above
\* the floor and no failed dispatch, a run of identical formatted readings
\* has started exactly one auto-print once it is N readings long, and none
\* before.
ExactlyOneTriggerPerRun ==
    run_steady =>
        IF run_len >= get_required_stable_iterations
        THEN run_fires = 1
        ELSE run_fires = 0

\* C2: while the print CLI is being run, for an automatic or a manual
\* print, the weight shown is a number whose magnitude is at least 0.01 kg.
NoPrintUnderFloor ==
    \A i \in Executing : AtLeastFloor(current_weight_var)

WitnessNoPrintUnderFloor ==
    /\ scale_status_var = "waiting"
    /\ current_weight_var = Format4(500)
    /\ stack # << >>
    /\ stack[1].kind = "manual"
    /\ stack[1].pc = "dlg_err"

\* C3: the print CLI is never run while the weight shown is negative.
NoPrintOfNegativeWeight ==
    \A i \in Executing : ~current_weight_var.neg

\* C4: after an auto-print of the current run has failed, no further
\* auto-print is dispatched until the value changes.
NoRetryAfterFailedAutoPrint ==
    \A i \in Executing :
        (stack[i].kind = "auto" /\ stack[i].formatted = run_value)
            => ~run_auto_failed

\* C5: a run of a value that was auto-printed before a change of the value
\* starts an auto-print again once it is N readings long.
ReprintAfterChange ==
    (run_steady /\ run_rerun /\ run_len >= get_required_stable_iterations)
        => run_fires >= 1

\* C6: the count is 0 exactly when no last value is set, at least 1
\* otherwise, and a reading whose formatted value differs from the last
\* value sets it to 1.
CountInvariant ==
    /\ [](/\ (last_scale_value = None) <=> (same_value_iterations = 0)
          /\ (last_scale_value # None) => (same_value_iterations >= 1))
    /\ [][(LiveStep /\ Format4(Head(queue).value) # last_scale_value)
             => same_value_iterations' = 1]_vars

WitnessCountInvariant ==
    /\ same_value_iterations = 1
    /\ last_scale_value = Format4(500)
    /\ acted_before = Format4(100001)

\* C7: processing an offline report empties the tracker, and an auto-print
\* starts only when the run read since the last offline report is at least
\* N readings long.
OfflineResetsTracker ==
    /\ [][OfflineStep =>
            /\ last_scale_value' = None
            /\ same_value_iterations' = 0
            /\ last_auto_printed_value' = None]_vars
    /\ [][(LiveStep /\ StartsPrint)
             => run_len' >= get_required_stable_iterations]_vars

WitnessOfflineResetsTracker ==
    /\ scale_status_var = "offline"
    /\ acted_before # None
    /\ same_value_iterations = 0
    /\ auto_print_enabled_var

\* C8 as stated: with the option on and no auto-print in flight, a reading
\* under the floor sets the status to "waiting" and dispatches nothing,
\* stable or not.
WaitingWheneverUnderFloor ==
    [][(/\ LiveStep
        /\ auto_print_enabled_var
        /\ ~auto_print_in_progress
        /\ ~AtLeastFloor(current_weight_var'))
          => (scale_status_var' = "waiting" /\ ~StartsPrint)]_vars

\* C8 amended: such a reading dispatches nothing, and sets the status to
\* "waiting" exactly when its run is at least N readings long; otherwise
\* the status is "live".
WaitingOnlyWhenStable ==
    [][(/\ LiveStep
        /\ auto_print_enabled_var
        /\ ~auto_print_in_progress
        /\ ~AtLeastFloor(current_weight_var'))
          => /\ ~StartsPrint
             /\ scale_status_var' =
                    IF run_len' >= get_required_stable_iterations
                    THEN "waiting" ELSE "live"]_vars

WitnessWaitingOnlyWhenStable ==
    /\ scale_status_var = "waiting"
    /\ current_weight_var = Format4(500)
    /\ run_len = 2
    /\ get_required_stable_iterations = 2
    /\ stack = << >>

\* C9: at most one print handler is inside the print CLI retry loop.
AtMostOnePrintJob == Cardinality(Executing) <= 1

WitnessAtMostOnePrintJob ==
    /\ Len(stack) = 2
    /\ stack[1].kind = "manual"
    /\ stack[2].kind = "auto"
    /\ stack[2].pc = "attempt"

\* C10: the in-flight flag is set exactly while an auto-print handler is on
\* the call stack.
InFlightOnlyDuringAutoPrint ==
    auto_print_in_progress <=>
        (\E i \in 1..Len(stack) : stack[i].kind = "auto")

WitnessInFlightOnlyDuringAutoPrint ==
    /\ stack = << >>
    /\ scale_status_var = "auto-print failed"
    /\ ~auto_print_in_progress
    /\ ~closed

\* C11: the acted value is set to a value v only by the return of an
\* auto-print handler of v whose dispatch succeeded (the print CLI printed
\* v); the return of a failed auto-print leaves it unchanged, and a reading
\* that starts no successful print (under the floor, one in flight, label
\* file not written) leaves it as the comparison left it, empty or unchanged.
RecordedOnlyAfterSuccess ==
    /\ [][(/\ last_auto_printed_value' # last_auto_printed_value
           /\ last_auto_printed_value' # None)
             => /\ stack # << >>
                /\ stack' = Pop
                /\ Top.kind = "auto"
                /\ Top.pc \in {"attempt", "dlg_log"}
                /\ last_auto_printed_value' = Top.formatted
                /\ acted_before' = Top.formatted]_vars
    /\ [][(/\ stack # << >>
           /\ stack' = Pop
           /\ Top.pc \in ErrorDialogs)
             => last_auto_printed_value' = last_auto_printed_value]_vars
    /\ [][LiveStep
             => last_auto_printed_value' \in {None, last_auto_printed_value}]_vars

WitnessRecordedOnlyAfterSuccess ==
    /\ stack = << >>
    /\ scale_status_var = "auto-print failed"
    /\ last_auto_printed_value = None
    /\ acted_before # None
    /\ last_scale_value # acted_before
    /\ same_value_iterations >= get_required_stable_iterations

\* C12: while an auto-print handler runs the print CLI, the image it handed
\* over shows the formatted weight that triggered the print, which is also
\* the weight print_label used for the file name and the log entry.
AutoPrintImageShowsTriggerWeight ==
    \A i \in Executing :
        stack[i].kind = "auto"
            => /\ stack[i].image = stack[i].formatted
               /\ stack[i].weight = parse_decimal(stack[i].formatted)

-----------------------------------------------------------------------------
(* Properties of the scale session *)

\* the worker thread has ended: the reconnect loop was left, or an
\* exception left the thread
WorkerEnded == wpc \in {"done", "raised"}

\* the worker calls open_scale_serial
OpenStep ==
    /\ wpc = "open"
    /\ wpc' # "open"

\* C16: no call of open_scale_serial begins while the stop flag is set.
NoOpenAfterStop == [][scale_stop_event => ~OpenStep]_vars

\* C17, its final state: when the worker thread has ended, the serial handle
\* is closed.
HandleClosedWhenWorkerEnds == WorkerEnded => ~ser_open

\* C18: while the stop flag is not set the worker has not ended; a failed
\* open queues an offline report and holds no handle; a read error queues an
\* offline report and leaves through the finally clause, which closes the
\* handle; an offline report changes status and tracker and opens no dialog;
\* and from the sleep after either failure the worker comes to the next
\* call of open_scale_serial, unless the stop flag is set.
ReconnectsForever ==
    /\ [](~scale_stop_event => ~WorkerEnded)
    /\ [][(OpenStep /\ ~ser_open' /\ ~scale_stop_event)
             => /\ queue' = Append(queue, OfflineEvent)
                /\ wpc' = "top"]_vars
    /\ [][(wpc \in {"read", "after_error"} /\ wpc' = "top")
             => /\ queue' = Append(queue, OfflineEvent)
                /\ ~ser_open']_vars
    /\ [][OfflineStep
             => /\ scale_status_var' = "offline"
                /\ stack' = stack]_vars
    /\ (wpc = "top") ~> (wpc = "open" \/ scale_stop_event)

WitnessReconnectsForever ==
    /\ scale_status_var = "offline"
    /\ current_weight_var = NAText
    /\ ser_open
    /\ queue = <<ConnectedEvent>>
    /\ ~scale_stop_event

\* a pass of the read loop that ends at one of its continue statements
SkipStep == wpc = "read" /\ wpc' = "continue"

\* C19: a read that times out, a blank line and a line without a weight
\* change nothing but the worker's position: status, displayed weight, last
\* value, consecutive count, acted value and the pending callbacks stay as
\* they are, and a reading equal to the last one still adds one to the
\* count whatever was skipped before it.
SkippedReadChangesNothing ==
    /\ [][SkipStep => UNCHANGED <<queue, ser_open, scale_stop_event,
                                  controlVars>>]_vars
    /\ [][(LiveStep /\ Format4(Head(queue).value) = last_scale_value)
             => /\ same_value_iterations' = same_value_iterations + 1
                /\ last_auto_printed_value' = last_auto_printed_value]_vars

\* a read is skipped while the count of a run of equal readings stands at 1
WitnessSkippedReadChangesNothing ==
    /\ wpc = "continue"
    /\ queue = << >>
    /\ scale_status_var = "live"
    /\ last_scale_value = Format4(100001)
    /\ current_weight_var = Format4(100001)
    /\ same_value_iterations = 1

\* the callbacks the worker hands over
Callbacks ==
    {ConnectedEvent, OfflineEvent} \cup {LiveEvent(v) : v \in RawValues}

\* a step of the worker thread
WorkerStep == wpc' # wpc

\* the worker schedules one callback behind those that wait
EmitStep ==
    /\ WorkerStep
    /\ \E e \in Callbacks : queue' = Append(queue, e)

\* the control context runs the callback that has waited longest, and the
\* callback does its work
ProcessStep ==
    /\ ~WorkerStep
    /\ closed' = closed
    /\ queue # << >>
    /\ queue' = Tail(queue)
    /\ LET e == Head(queue)
       IN  CASE e.type = "connected" -> scale_status_var' = "connected"
             [] e.type = "offline" -> /\ scale_status_var' = "offline"
                                      /\ current_weight_var' = NAText
                                      /\ last_scale_value' = None
                                      /\ same_value_iterations' = 0
             [] e.type = "live" -> /\ current_weight_var' = Format4(e.value)
                                   /\ last_scale_value' = Format4(e.value)

\* on_close destroys the application with the callbacks that still wait
DiscardStep ==
    /\ ~closed
    /\ closed'
    /\ queue' = << >>

\* the worker writes neither the display nor the tracker
WorkerWritesNoControlState ==
    [][WorkerStep => UNCHANGED <<controlVars, runVars>>]_vars

\* a call of self.after that waited hands over the callback it was given,
\* behind those that wait
WaitingCallHandsOver ==
    [][(after_pending # << >> /\ after_pending' = << >>)
          => queue' = queue \o after_pending]_vars

\* C20 as stated: every callback of the worker joins the queue behind the
\* others and leaves it at the front when the control context runs it, so
\* each is run exactly once and in the order of emission; the worker
\* writes no display or tracker state.
HandoffExactlyOnceInOrder ==
    /\ WorkerWritesNoControlState
    /\ WaitingCallHandsOver
    /\ [][queue' # queue => (EmitStep \/ ProcessStep)]_vars

\* C20, corrected: the same, before destroy() and in the dialogs print
\* handlers open after it, except that the callbacks that wait when
\* on_close destroys the application are never run: destroy() empties the
\* queue.  A call of self.after that waits at that moment hands its
\* callback over in the event loop of a later dialog; once mainloop has
\* returned and no print handler is on the call stack, nothing is handed
\* over and nothing is run.
HandoffInOrderUntilClose ==
    /\ WorkerWritesNoControlState
    /\ WaitingCallHandsOver
    /\ [][queue' # queue => (EmitStep \/ ProcessStep \/ DiscardStep)]_vars
    /\ [][(~closed /\ closed') => queue' = << >>]_vars
    /\ [][(closed /\ stack = << >>)
             => (after_pending' = after_pending /\ queue' = queue)]_vars

\* a reading and, behind it, the report of the read error that followed it
\* wait while the display still shows the reading before them
WitnessHandoffInOrderUntilClose ==
    /\ queue = <<LiveEvent(100001), OfflineEvent>>
    /\ wpc = "top"
    /\ ~ser_open
    /\ ~closed
    /\ scale_status_var = "live"
    /\ current_weight_var = Format4(500)

-----------------------------------------------------------------------------
(* Properties of the print dispatch *)

Dispatched == dispatch # NotDispatched

\* texts of a busy USB interface
BusyTexts == {<<"Resource", "busy">>, <<"Errno", "16">>, <<"usb.core.USBError">>}

\* run i of the print CLI fails with a text of a busy USB interface
FailsBusy(i) ==
    /\ cli_runs[i].returncode # 0
    /\ cli_runs[i].output \in BusyTexts

\* run i of the print CLI fails with another text, or with none
FailsOtherwise(i) ==
    /\ cli_runs[i].returncode # 0
    /\ cli_runs[i].output \notin BusyTexts

\* C13: a dispatch sleeps once between two consecutive runs of the CLI and
\* nowhere else, base_delay * k before run k + 1, so the sleeps increase
\* strictly; with "busy" failures at runs 1 to 3 and a success at run 4 it
\* returns after exactly 4 runs and the sleeps base_delay * 1, 2, 3.
LinearBackoff ==
    Dispatched =>
        /\ Len(dispatch.waits) = dispatch.invocations - 1
        /\ \A k \in 1..Len(dispatch.waits) :
               dispatch.waits[k] = PRINT_RETRY_BASE_DELAY_SECONDS * k
        /\ \A k \in 1..(Len(dispatch.waits) - 1) :
               dispatch.waits[k] < dispatch.waits[k + 1]
        /\ ((\A i \in 1..3 : FailsBusy(i)) /\ cli_runs[4].returncode = 0)
               => /\ dispatch.ok
                  /\ dispatch.invocations = 4
                  /\ dispatch.waits = <<PRINT_RETRY_BASE_DELAY_SECONDS * 1,
                                        PRINT_RETRY_BASE_DELAY_SECONDS * 2,
                                        PRINT_RETRY_BASE_DELAY_SECONDS * 3>>

WitnessLinearBackoff ==
    /\ dispatch.ok
    /\ dispatch.invocations = 4
    /\ cli_runs[1].output = <<"Resource", "busy">>
    /\ cli_runs[2].output = <<"Errno", "16">>
    /\ cli_runs[3].output = <<"usb.core.USBError">>

\* C14: every run of the CLI but the last one failed with a "busy" text, and
\* a failure at run k with another text (or with none) ends the dispatch
\* there: it raises that text after exactly k runs and k - 1 sleeps.
RetriesOnlyTransient ==
    Dispatched =>
        /\ \A i \in 1..(dispatch.invocations - 1) : FailsBusy(i)
        /\ \A k \in 1..PRINT_RETRY_ATTEMPTS :
               (dispatch.invocations >= k /\ FailsOtherwise(k))
                   => /\ ~dispatch.ok
                      /\ dispatch.invocations = k
                      /\ Len(dispatch.waits) = k - 1
                      /\ dispatch.error =
                             IF cli_runs[k].output = << >>
                             THEN DefaultFailureText
                             ELSE cli_runs[k].output

WitnessRetriesOnlyTransient ==
    /\ ~dispatch.ok
    /\ dispatch.invocations = 3
    /\ dispatch.error = <<"device", "not", "found">>
    /\ cli_runs[4].returncode = 0

\* C15: a dispatch runs the CLI at most 4 times and never again after a
\* success; it returns exactly when its last run succeeded; when runs 1 to 4
\* all fail with a "busy" text it raises the text of run 4 after 4 runs and
\* exactly 3 sleeps.
BoundedAttempts ==
    Dispatched =>
        /\ dispatch.invocations \in 1..PRINT_RETRY_ATTEMPTS
        /\ \A i \in 1..(dispatch.invocations - 1) : cli_runs[i].returncode # 0
        /\ dispatch.ok <=> (cli_runs[dispatch.invocations].returncode = 0)
        /\ (\A i \in 1..PRINT_RETRY_ATTEMPTS : FailsBusy(i))
               => /\ ~dispatch.ok
                  /\ dispatch.invocations = PRINT_RETRY_ATTEMPTS
                  /\ dispatch.error = cli_runs[PRINT_RETRY_ATTEMPTS].output
                  /\ Len(dispatch.waits) = PRINT_RETRY_ATTEMPTS - 1

WitnessBoundedAttempts ==
    /\ ~dispatch.ok
    /\ dispatch.invocations = 4
    /\ dispatch.error = <<"usb.core.USBError">>
    /\ cli_runs[3].output = <<"Resource", "busy">>
    /\ cli_runs[5].returncode = 0

-----------------------------------------------------------------------------
(* Properties of sanitize_filename_part *)

\* the call of sanitize_filename_part has returned
Sanitized == call.fn = "sanitize_filename_part" /\ returned.raised = "no"

\* every character outside the safe class replaced by "_", one by one
RECURSIVE ReplaceEach(_)
ReplaceEach(text) ==
    IF text = << >> THEN << >>
    ELSE <<IF Head(text) \notin FilenameSafe THEN "_" ELSE Head(text)>>
         \o ReplaceEach(Tail(text))

\* repeated "_" made one
RECURSIVE CollapseUnderscores(_)
CollapseUnderscores(text) ==
    IF Len(text) < 2 THEN text
    ELSE IF text[1] = "_" /\ text[2] = "_"
         THEN CollapseUnderscores(Tail(text))
         ELSE <<text[1]>> \o CollapseUnderscores(Tail(text))

OrFallback(text, fallback) == IF text = << >> THEN fallback ELSE text

\* C30 as stated: the result is the input with every character outside
\* [A-Za-z0-9._-] replaced by "_" and repeated "_" collapsed, or the
\* placeholder when that is empty; nothing else is removed.
SanitizeReplacesAndCollapsesOnly ==
    Sanitized =>
        returned.value
            = OrFallback(CollapseUnderscores(ReplaceEach(call.value)),
                         call.fallback)

\* C30, corrected: blanks at both ends are removed first, then every
\* character outside [A-Za-z0-9._-] is replaced by "_" and repeated "_"
\* are collapsed, then "." and "_" at both ends are removed; the placeholder
\* stands for an empty result.  The result is never empty and, unless it is
\* the placeholder, holds safe characters only and neither starts nor ends
\* with "." or "_".
SanitizeTrimsReplacesCollapses ==
    Sanitized =>
        LET inner == LStrip(RStrip(call.value, Whitespace), Whitespace)
            body == CollapseUnderscores(ReplaceEach(inner))
            core == LStrip(RStrip(body, {".", "_"}), {".", "_"})
            out == returned.value
        IN  /\ out = OrFallback(core, call.fallback)
            /\ out # << >>
            /\ out # call.fallback =>
                  /\ \A i \in 1..Len(out) : out[i] \in FilenameSafe
                  /\ out[1] \notin {".", "_"}
                  /\ out[Len(out)] \notin {".", "_"}

\* " .a/" has become "a": the blank and the dot in front and the slash at
\* the end are gone
WitnessSanitizeTrimsReplacesCollapses ==
    /\ Sanitized
    /\ call.value = <<" ", ".", "a", "/">>
    /\ returned.value = <<"a">>

-----------------------------------------------------------------------------
(* Properties of the label paths *)

\* a print job chooses its path and saves
JobStep == call'.fn = "print_label" /\ call' # call

\* the names a job's path shares its base name with, by suffix
Sibling(path, suffix) ==
    LabelName(path.stamp, path.cut, path.weight, suffix)

\* C22 as stated: a job that asks for the cut name, weight and second of
\* the job before it gets another path than that job, with the suffix _2.
SecondPathIsSuffixed2 ==
    [][(JobStep /\ call'.repeats)
         => /\ returned'.value # returned.value
            /\ returned'.value.suffix = 2]_vars

\* C22, corrected: a job that asks for the cut name, weight and second of
\* the job before it gets, when that job has written its label, another
\* path with the same base name: the one with the smallest suffix >= 2 that
\* is free (the name without suffix and every smaller suffix are taken),
\* which is later than the first job's and is _2 when the first label
\* took the name without suffix and no _2 file was there.  When the save
\* of the job before it raised, no file was written and the job gets the
\* same path again.
SecondPathAfterWrittenFirst ==
    [][(JobStep /\ call'.repeats)
         => LET first == returned.value
                second == returned'.value
            IN  IF returned.raised = "no"
                THEN /\ second # first
                     /\ Sibling(second, first.suffix) = first
                     /\ second.suffix > first.suffix
                     /\ second.suffix >= 2
                     /\ second \notin printed_labels
                     /\ Sibling(first, 0) \in printed_labels
                     /\ \A k \in 2..(second.suffix - 1) :
                            Sibling(first, k) \in printed_labels
                     /\ (first.suffix = 0
                         /\ Sibling(first, 2) \notin printed_labels)
                           => second.suffix = 2
                ELSE second = first]_vars

\* two jobs for "a/a", 1.0000 kg at second 1 in an empty directory: the
\* second label is written to the _2 name
WitnessSecondPathAfterWrittenFirst ==
    /\ call.fn = "print_label"
    /\ call.job = 2
    /\ call.repeats
    /\ call.cut_name = <<"a", "/", "a">>
    /\ returned.raised = "no"
    /\ returned.writes = 2
    /\ returned.value.suffix = 2
    /\ printed_labels = {Sibling(returned.value, 0), returned.value}

\* C23: the path a print job chooses does not exist when it is chosen; it
\* is the name without suffix, or, when that exists, the name with the
\* smallest suffix >= 2 that is free; no file is removed, and every save
\* adds a file to those that were there, so no two jobs write one path.
NeverOverwritesLabel ==
    [][JobStep
         => LET label_path == returned'.value
            IN  /\ label_path \notin printed_labels
                /\ label_path.suffix # 1
                /\ label_path.suffix >= 2
                      => \A k \in {0} \cup (2..(label_path.suffix - 1)) :
                            Sibling(label_path, k) \in printed_labels
                /\ printed_labels \subseteq printed_labels'
                /\ returned'.raised = "no"
                      => /\ printed_labels' = printed_labels \cup {label_path}
                         /\ Cardinality(printed_labels')
                               = Cardinality(printed_labels) + 1]_vars

\* three jobs whose cut names differ but give the same base name, with the
\* _2 name there from the start: they wrote the plain name, _3 and _4
WitnessNeverOverwritesLabel ==
    /\ call.fn = "print_label"
    /\ call.job = 3
    /\ returned.writes = 3
    /\ returned.raised = "no"
    /\ returned.value.suffix = 4
    /\ Cardinality(printed_labels) = 4
    /\ \A k \in {0, 2, 3, 4} : Sibling(returned.value, k) \in printed_labels

-----------------------------------------------------------------------------
(* Properties of a print handler *)

\* on_print is entered
ClickStep ==
    /\ Interactive
    /\ Len(stack') = Len(stack) + 1
    /\ stack'[Len(stack')].kind = "manual"

\* _on_live_scale_value runs and calls _trigger_auto_print: the option is
\* on, the count has reached the required one and the value was not acted on
TriggerStep ==
    /\ LiveStep
    /\ auto_print_enabled_var
    /\ same_value_iterations' >= get_required_stable_iterations
    /\ ActedAfterReading(current_weight_var' = last_scale_value,
                         last_auto_printed_value) # current_weight_var'

\* the dialog of a manual print that failed or was turned down is closed
ManualErrorClosed ==
    /\ stack # << >>
    /\ stack' = Pop
    /\ Top.kind = "manual"
    /\ Top.pc \in ErrorDialogs

\* C21: a print whose weight is under the floor or no number is turned down
\* (print_label raises ValueError and on_print shows it in the "Print
\* error" dialog, or _trigger_auto_print sets the status "waiting" and
\* returns False without a dialog); it writes no label file, does not enter
\* the retry loop of the print CLI and appends no line to the print log.
\* The manual print leaves last value, count, acted value and flag as they
\* were, when the dialog opens and when it is closed; the trigger leaves
\* them as the comparison of _on_live_scale_value set them.
RejectedPrintHasNoEffect ==
    /\ [][(ClickStep /\ ~AtLeastFloor(current_weight_var))
            => /\ stack' = Append(stack,
                       Frame("manual", "dlg_err", None, NoFloat, None))
               /\ UNCHANGED <<printed_labels, print_log, trackerVars,
                              auto_print_in_progress, scale_status_var,
                              current_weight_var>>]_vars
    /\ [][ManualErrorClosed
            => UNCHANGED <<printed_labels, print_log, trackerVars,
                           auto_print_in_progress, scale_status_var,
                           current_weight_var>>]_vars
    /\ [][(TriggerStep /\ ~auto_print_in_progress
                       /\ ~AtLeastFloor(current_weight_var'))
            => /\ UNCHANGED <<stack, printed_labels, print_log,
                              auto_print_in_progress>>
               /\ scale_status_var' = "waiting"
               /\ last_scale_value' = current_weight_var'
               /\ same_value_iterations' =
                      IF current_weight_var' = last_scale_value
                      THEN same_value_iterations + 1 ELSE 1
               /\ last_auto_printed_value' =
                      IF current_weight_var' = last_scale_value
                      THEN last_auto_printed_value ELSE None]_vars

\* a second reading of 0.0500 kg, with the option on, was turned down with
\* the status "waiting" while the "Print error" dialog of a manual print of
\* the first was open; nothing was written
WitnessRejectedPrintHasNoEffect ==
    /\ scale_status_var = "waiting"
    /\ current_weight_var = Format4(500)
    /\ same_value_iterations = 2
    /\ last_auto_printed_value = None
    /\ stack = <<Frame("manual", "dlg_err", None, NoFloat, None)>>
    /\ printed_labels = {}
    /\ print_log = << >>

-----------------------------------------------------------------------------
(* Properties of the label field config *)

\* normalize_label_field_config has returned a config
Normalized ==
    /\ call.fn = "normalize_label_field_config"
    /\ returned.raised = "no"

\* load_label_field_config has read the file that the call of
\* save_label_field_config before it wrote
Reloaded ==
    /\ call.fn = "load_label_field_config"
    /\ call.reload
    /\ returned.raised # "pending"

\* the number a line spacing stands for, 8 when it stands for none, brought
\* into 0..120
ClampedTo120(line_spacing) ==
    LET number == IF int(line_spacing).raised = "no"
                  THEN int(line_spacing).n ELSE 8
    IN  IF number > 120 THEN 120 ELSE IF number < 0 THEN 0 ELSE number

\* C24: Normalizing a config that normalization returned gives the same
\* config again, and loading the file that save_label_field_config wrote
\* returns the normalization of the config that was saved, with the line
\* spacing that was saved brought into 0..120.
NormalizeIdempotentAndSurvivesReload ==
    /\ Normalized =>
          \E again \in {normalize_label_field_config(PyList(returned.value))} :
              again.raised = "no" /\ again.value = returned.value
    /\ Reloaded =>
          /\ returned.raised = "no"
          /\ \E original \in {normalize_label_field_config(call.config_items)} :
                original.raised = "no" /\ returned.value = original.value
          /\ returned.line_spacing = ClampedTo120(call.line_spacing)

\* a config with a duplicate and an item that is dropped was saved with a
\* line spacing above 120, and has been loaded again
WitnessNormalizeIdempotentAndSurvivesReload ==
    /\ Reloaded
    /\ Len(call.config_items.items) = 2
    /\ call.config_items.items[1].key = PyStr(<<"cut_name">>)
    /\ call.config_items.items[2].key = PyStr(<<" ", "cut_name", " ">>)
    /\ call.line_spacing = PyInt(300)
    /\ returned.line_spacing = 120
    /\ returned.value[1].font_size = PyInt(120)
    /\ Len(returned.value) = Len(LABEL_FIELD_DEFS)

\* str(raw.get("key", "")).strip() of a list item, empty if it is no dict
KeyOf(raw) ==
    IF raw.dict THEN Strip(str(Get(raw.key, PyStr(<< >>))), Whitespace)
    ELSE << >>

KnownKeys == {<<LABEL_FIELD_DEFS[i][1]>> : i \in 1..Len(LABEL_FIELD_DEFS)}

\* the positions of the items of the list that are retained: the first
\* item of each key that is a known field or a free-text key
Retained(items) ==
    {i \in 1..Len(items) :
        /\ KeyOf(items[i]) \in KnownKeys \/ is_empty_line_key(KeyOf(items[i]))
        /\ \A j \in 1..(i - 1) : KeyOf(items[j]) # KeyOf(items[i])}

\* the positions in LABEL_FIELD_DEFS of the known keys the list does not
\* have
MissingDefs(items) ==
    {d \in 1..Len(LABEL_FIELD_DEFS) :
        \A i \in 1..Len(items) : KeyOf(items[i]) # <<LABEL_FIELD_DEFS[d][1]>>}

\* the i-th smallest element of a set of numbers
RECURSIVE Nth(_, _)
Nth(set, i) ==
    LET least == CHOOSE n \in set : \A m \in set : n <= m
    IN  IF i = 1 THEN least ELSE Nth(set \ {least}, i - 1)

\* C25: For every list and for everything that is no list,
\* normalize_label_field_config returns a config that holds every known key
\* exactly once and no key that is neither known nor a free-text key; its
\* first entries are the retained items of the list in their order, each
\* made from the first item of its key, and the known keys the list does not
\* have follow in definition order with their defaults.
NormalizedConfigIsComplete ==
    (call.fn = "normalize_label_field_config" /\ returned.raised # "pending") =>
        /\ returned.raised = "no"
        /\ \A key \in KnownKeys :
              Cardinality({i \in 1..Len(returned.value) :
                              returned.value[i].key.s = key}) = 1
        /\ \A i \in 1..Len(returned.value) :
              \/ returned.value[i].key.s \in KnownKeys
              \/ is_empty_line_key(returned.value[i].key.s)
        /\ \E retained \in {Retained(call.config_items.items)},
              missing \in {MissingDefs(call.config_items.items)} :
              /\ Len(returned.value)
                    = Cardinality(retained) + Cardinality(missing)
              /\ \A i \in 1..Cardinality(retained) :
                    returned.value[i]
                        = normalize_label_field_config(
                              PyList(<<call.config_items.items[
                                          Nth(retained, i)]>>)).value[1]
              /\ \A i \in 1..Cardinality(missing) :
                    returned.value[Cardinality(retained) + i]
                        = default_label_field_config[Nth(missing, i)]

-----------------------------------------------------------------------------
(* Properties of the label composition *)

\* build_label_image has returned the label of the call
Composition ==
    /\ call.fn = "build_label_image"
    /\ returned.raised = "no"

\* the entry of a normalized config is shown and is a free-text entry, or a
\* field other than the logo whose value is not empty
TakesALine(entry, label_values) ==
    /\ entry.show.b
    /\ \/ is_empty_line_key(entry.key.s)
       \/ /\ entry.key.s # <<"logo_path">>
          /\ label_values[entry.key.s].s # << >>

\* the sum of font_size + line_spacing over the entries that take a line
RECURSIVE LinesHeight(_, _, _)
LinesHeight(entries, label_values, line_spacing) ==
    IF entries = << >> THEN 0
    ELSE (IF TakesALine(Head(entries), label_values)
          THEN Head(entries).font_size.n + line_spacing ELSE 0)
         + LinesHeight(Tail(entries), label_values, line_spacing)

\* C26: When the label is composed, the cursor ends at the top margin plus
\* font_size + line_spacing for every shown free-text entry, with or without
\* text, and for every shown field other than the logo whose value is not
\* empty; a field with an empty value adds nothing.
CursorAdvancesPerLine ==
    Composition =>
        returned.y = Margin + LinesHeight(call.label_field_config,
                                          call.label_values,
                                          call.line_spacing.n)

\* a label was composed whose config shows a free-text entry without text
\* and the cut, and the cut is empty
WitnessCursorAdvancesPerLine ==
    /\ Composition
    /\ \E i, j \in 1..Len(call.label_field_config) :
          /\ is_empty_line_key(call.label_field_config[i].key.s)
          /\ call.label_field_config[i].show.b
          /\ call.label_field_config[i].print_name.s = << >>
          /\ call.label_field_config[j].key.s = <<"cut_name">>
          /\ call.label_field_config[j].show.b
          /\ call.label_values[<<"cut_name">>].s = << >>
    /\ returned.y > Margin

\* C27: Whatever was composed before and whatever FONT_CACHE holds, the
\* composition of a label gives the operations, with their positions, texts
\* and fonts, that its composition with an empty FONT_CACHE gives: the same
\* values, field list and line spacing give the same image.
CompositionIsDeterministic ==
    Composition =>
        \E fresh \in {build_label_image(call.label_values,
                          call.label_field_config, call.line_spacing,
                          call.installed, call.logo_width, << >>)} :
            /\ fresh.raised = "no"
            /\ returned.value = fresh.ops
            /\ returned.y = fresh.y

\* the label has been composed a second time, after another label with a
\* font size of its own, and it has a text
WitnessCompositionIsDeterministic ==
    /\ Composition
    /\ returned.nth = 2
    /\ 100 \in DOMAIN FONT_CACHE
    /\ \E i \in 1..Len(returned.value) : returned.value[i].kind = "text"

-----------------------------------------------------------------------------
(* Properties of the line parsers *)

\* the raw line without the bytes that are no valid UTF-8
ValidBytes(raw) == SelectSeq(raw, LAMBDA byte : byte # "invalid")

\* somewhere in the text there are digits, possibly a point and digits
\* after them, then blanks if any, then kg in some case
HoldsWeight(text) ==
    \E d1, d2, f, u \in 1..Len(text) :
        /\ d1 <= d2
        /\ \A p \in d1..d2 : IsDigit(text[p])
        /\ \/ f = d2
           \/ /\ f >= d2 + 2
              /\ text[d2 + 1] = "."
              /\ \A p \in (d2 + 2)..f : IsDigit(text[p])
        /\ u > f
        /\ \A p \in (f + 1)..(u - 1) : text[p] \in LineWhitespace
        /\ u + 1 <= Len(text)
        /\ text[u] \in {"k", "K"}
        /\ text[u + 1] \in {"g", "G"}

\* the read loop of _scale_monitor_worker has dealt with the line
WorkerReadLine ==
    /\ call.fn = "_scale_monitor_worker"
    /\ returned.raised # "pending"

\* C28: For every raw line that, its invalid bytes dropped, holds no weight
\* pattern (the empty line, garbage, invalid bytes), the read loop of the
\* worker raises nothing, hands no value over and goes on with the next
\* readline.
LineWithoutWeightIsSkipped ==
    (WorkerReadLine /\ ~HoldsWeight(ValidBytes(call.raw))) =>
        /\ returned.raised = "no"
        /\ ~returned.value.some
        /\ returned.at = "readline"

\* the worker has dealt with a line of digits, an invalid byte and letters
\* that holds no weight
WitnessLineWithoutWeightIsSkipped ==
    /\ WorkerReadLine
    /\ ~HoldsWeight(ValidBytes(call.raw))
    /\ Len(call.raw) = 3
    /\ call.raw[1] = "1"
    /\ call.raw[2] = "invalid"
    /\ call.raw[3] = "k"

\* C29: A line holding 1.5, a blank and kg, KG, Kg or kG is parsed to 1.5
\* by the read loop of the worker and by the loop of scale.py.
UnitMatchesInEveryReader ==
    \A unit \in {<<"k", "g">>, <<"K", "G">>, <<"K", "g">>, <<"k", "G">>} :
        (/\ returned.raised # "pending"
         /\ call.raw = <<"1", ".", "5", " ">> \o unit \o <<"LF">>)
            => returned.value = SomeFloat(150000)

-----------------------------------------------------------------------------
(* Properties of the print log *)

\* the innermost print handler leaves the retry loop after a run of the
\* print CLI that ended with exit status 0: print_label has gone on to
\* log_successful_print, and the handler returns or shows the warning that
\* the log was not written
DispatchSucceeded ==
    /\ stack # << >>
    /\ Top.pc = "attempt"
    /\ \/ stack' = Pop
       \/ /\ Len(stack') = Len(stack)
          /\ stack'[Len(stack')].pc = "dlg_log"

\* append_print_log raised, and log_successful_print shows its warning
LogWarningShown ==
    /\ Len(stack') = Len(stack)
    /\ stack # << >>
    /\ Top.pc = "attempt"
    /\ stack'[Len(stack')].pc = "dlg_log"

\* the print log holds the lines it held and one more after them
OneLineAppended ==
    /\ Len(print_log') = Len(print_log) + 1
    /\ SubSeq(print_log', 1, Len(print_log)) = print_log

\* the user resets the print log in the analytics window
LogReset ==
    /\ Interactive
    /\ stack' = stack
    /\ print_log' = << >>

\* C31 as stated: a step in which the dispatch of a print handler succeeds
\* appends one line to the print log; no other step of a print (a print
\* that is turned down, a failed run of the print CLI, the opening and the
\* closing of a dialog) changes the log, and the lines that were there stay
\* as they were.
LoggedOncePerDispatchedPrint ==
    [][IF DispatchSucceeded THEN OneLineAppended
       ELSE (print_log' = print_log \/ LogReset)]_vars

\* C31: a print handler appends at most one line to the print log, after
\* the lines that were there, which stay as they were; it appends one when
\* its dispatch succeeded and append_print_log did not raise; when the
\* dispatch succeeded and append_print_log raised it appends none and shows
\* the warning; a print that was turned down or failed appends none and
\* shows no warning.
LoggedOncePerDispatchedPrintIfWritable ==
    [][/\ (DispatchSucceeded /\ ~LogWarningShown) => OneLineAppended
       /\ LogWarningShown => print_log' = print_log
       /\ ~DispatchSucceeded
             => /\ print_log' = print_log \/ LogReset
                /\ \A i \in 1..Len(stack') :
                      stack'[i].pc = "dlg_log"
                          => (i <= Len(stack) /\ stack[i].pc = "dlg_log")]_vars

\* a manual print of 10.0001 kg has printed with a log that held a line:
\* the log holds that line and the line of this print
WitnessLoggedOncePerDispatchedPrintIfWritable ==
    /\ stack = << >>
    /\ ~auto_print_enabled_var
    /\ current_weight_var = Format4(100001)
    /\ Cardinality(printed_labels) = 1
    /\ Len(print_log) = 2
    /\ print_log[1].time = 0
    /\ print_log[2].weight_kg = parse_decimal(Format4(100001))

-----------------------------------------------------------------------------
(* Properties of the required stable count *)

\* get_required_stable_iterations has returned
RequiredAsked ==
    /\ call.fn = "get_required_stable_iterations"
    /\ returned.raised = "no"

\* the text holds no digit, or a character no integer is written with
NoInteger(text) ==
    \/ \A i \in 1..Len(text) : text[i] \notin Digits
    \/ \E i \in 1..Len(text) : text[i] \notin Digits \cup {"+", "-", " "}

\* the text is a minus sign and digits, or zeros only
NotPositive(text) ==
    /\ Len(text) >= 1
    /\ \/ /\ Len(text) >= 2
          /\ text[1] = "-"
          /\ \A i \in 2..Len(text) : text[i] \in Digits
       \/ \A i \in 1..Len(text) : text[i] = "0"

\* C32: The required stable count is at least 1 for every text of the
\* spinbox: 1 for zero and for a negative number, and the default 10 for a
\* text that is no integer.
RequiredCountAtLeastOne ==
    RequiredAsked =>
        /\ returned.value >= 1
        /\ NoInteger(call.text) => returned.value = SCALE_DEFAULT_STABLE_ITERATIONS
        /\ NotPositive(call.text) => returned.value = 1
        /\ call.text = <<"1", "2">> => returned.value = 12

\* the count asked for with the spinbox holding -1
WitnessRequiredCountAtLeastOne ==
    /\ RequiredAsked
    /\ call.text = <<"-", "1">>
    /\ returned.value = 1

-----------------------------------------------------------------------------
(* Properties of the standalone scale reader *)

\* the last pass of the loop of main printed the value it read
PrintedValue == scale_loop.printed = "value"

\* C33: main of scale.py prints a value only at a reading that is at least
\* the tenth of a run of equal readings, and at most once during such a
\* run.
PrintsStableValueOncePerRun ==
    /\ scale_run.prints <= 1
    /\ PrintedValue =>
          /\ scale_run.value = scale_loop.value
          /\ scale_run.len >= STABLE_ITERATIONS

\* the eleventh reading of 1 kg in a row, the tenth of which was printed:
\* nothing is printed
WitnessPrintsStableValueOncePerRun ==
    /\ scale_loop.value = SomeFloat(100000)
    /\ scale_run.len = STABLE_ITERATIONS + 1
    /\ scale_run.prints = 1
    /\ scale_loop.printed = "nothing"

\* C39: main of scale.py never prints the value it printed last: the value
\* printed before the one it prints is another one, and a run of equal
\* readings that reached the count without a print is a run of the value
\* that was printed last.
NeverPrintsSameValueTwiceInARow ==
    /\ PrintedValue => scale_run.printed_before # scale_loop.value
    /\ (scale_run.len >= STABLE_ITERATIONS /\ scale_run.prints = 0)
          => scale_run.last_print = scale_run.value

\* 1 kg was printed, another value was read, and 1 kg has now been read ten
\* times in a row again: nothing is printed
WitnessNeverPrintsSameValueTwiceInARow ==
    /\ scale_loop.value = SomeFloat(100000)
    /\ scale_loop.printed = "nothing"
    /\ scale_run.value = SomeFloat(100000)
    /\ scale_run.len = STABLE_ITERATIONS
    /\ scale_run.prints = 0
    /\ scale_run.last_print = SomeFloat(100000)

-----------------------------------------------------------------------------
(* Properties of the acted value *)

\* C34: In every state the acted value is None or equals the last value of
\* the tracker, whatever was delivered while a print handler or its dialog
\* was on the call stack.
ActedIsNoneOrLastValue ==
    \/ last_auto_printed_value = None
    \/ last_auto_printed_value = last_scale_value

-----------------------------------------------------------------------------
(* Properties of printing without a reading *)

\* there is no current reading: none was processed yet, or none since the
\* last offline report
NoCurrentReading == run_value = None

\* C35: While there is no current reading the weight shown is "" or "n/a",
\* which parse_decimal turns into None, no print handler is inside the
\* dispatch, and a print handler entered meanwhile goes straight to its
\* error dialog: the print CLI is not run.
NoPrintWithoutReading ==
    /\ [](NoCurrentReading =>
            /\ current_weight_var \in {EmptyText, NAText}
            /\ ~parse_decimal(current_weight_var).some
            /\ Executing = {})
    /\ [][(NoCurrentReading /\ NoCurrentReading' /\ StartsPrint) =>
            /\ stack'[Len(stack')].kind = "manual"
            /\ stack'[Len(stack')].pc = "dlg_err"
            /\ UNCHANGED <<trackerVars, auto_print_in_progress,
                           current_weight_var, acted_before>>]_vars

\* the scale is offline, the weight shows "n/a", and the Print button has
\* brought up the error dialog
WitnessNoPrintWithoutReading ==
    /\ NoCurrentReading
    /\ scale_status_var = "offline"
    /\ current_weight_var = NAText
    /\ stack = <<Frame("manual", "dlg_err", None, NoFloat, None)>>
    /\ queue = << >>

-----------------------------------------------------------------------------
(* Properties of the auto-print option *)

\* the reading that is processed repeats the last value, the count having
\* reached the required one before it
ContinuesStableRun ==
    /\ LiveStep
    /\ Format4(Head(queue).value) = last_scale_value
    /\ same_value_iterations >= get_required_stable_iterations

\* an automatic print is entered and reaches its dispatch
StartsAutoPrint ==
    /\ StartsPrint
    /\ stack'[Len(stack')].kind = "auto"
    /\ stack'[Len(stack')].pc = "attempt"

\* the tracker after a reading: the value, and the count one higher for a
\* repeated value and 1 for another one
TrackerCounts ==
    /\ last_scale_value' = Format4(Head(queue).value)
    /\ same_value_iterations' =
          IF Format4(Head(queue).value) = last_scale_value
          THEN same_value_iterations + 1 ELSE 1

\* the option was switched on during a run of a positive weight of at
\* least 0.01 kg whose count has reached the required one, and the reading
\* that is processed is the next thing the control context does and
\* repeats the value
CatchesUp ==
    /\ run_switched_on
    /\ auto_print_enabled_var
    /\ ContinuesStableRun
    /\ AtLeastFloor(last_scale_value)
    /\ ~last_scale_value.neg

\* _trigger_auto_print is entered and sets out to print
TriggerFires ==
    /\ StartsPrint
    /\ stack'[Len(stack')].kind = "auto"

\* C36 as stated: with the option off a reading is counted, starts no print
\* and no step sets the acted value; when the option was switched on
\* during a run whose count has reached the required one, the trigger
\* fires at the next reading of the same value.
OptionOffCountsAndCatchesUp ==
    [][/\ ~auto_print_enabled_var =>
             /\ last_auto_printed_value' \in {last_auto_printed_value, None}
             /\ LiveStep => (~StartsPrint /\ TrackerCounts)
       /\ CatchesUp => TriggerFires]_vars

\* C36: with the option off a reading is counted, starts no print and no
\* step sets the acted value; with the option on, a reading that repeats a
\* value whose count has reached the required one and that was not acted
\* on calls _trigger_auto_print: an automatic print is started when none is
\* in flight and the weight is at least 0.01 kg, the status shows waiting
\* when none is in flight and the weight is under 0.01 kg, and nothing is
\* started otherwise.
OptionOffCountsAndCatchesUpUnlessActed ==
    [][/\ ~auto_print_enabled_var =>
             /\ last_auto_printed_value' \in {last_auto_printed_value, None}
             /\ LiveStep => (~StartsPrint /\ TrackerCounts)
       /\ (auto_print_enabled_var /\ ContinuesStableRun) =>
             /\ TrackerCounts
             /\ IF last_auto_printed_value = last_scale_value
                   \/ auto_print_in_progress
                THEN ~StartsPrint
                ELSE IF AtLeastFloor(last_scale_value)
                THEN StartsPrint
                     /\ stack'[Len(stack')].kind = "auto"
                     /\ stack'[Len(stack')].formatted = last_scale_value
                ELSE ~StartsPrint /\ scale_status_var' = "waiting"]_vars

\* the required count is 1 and the second reading of 1.0000 kg has started
\* the first automatic print of its run: the option was off at the first
\* reading
WitnessOptionOffCountsAndCatchesUpUnlessActed ==
    /\ auto_print_enabled_var
    /\ get_required_stable_iterations = 1
    /\ same_value_iterations = 2
    /\ run_len = 2
    /\ run_fires = 1
    /\ last_scale_value = Format4(100001)
    /\ stack = <<Frame("auto", "attempt", Format4(100001),
                       parse_decimal(Format4(100001)), current_label_image)>>

-----------------------------------------------------------------------------
(* Properties of the preview rebuild *)

\* the cached label image shows the values the label inputs hold now
ImageCurrent ==
    /\ current_label_image = WeightText(current_weight_var)
    /\ image_values = PreviewValues(label_inputs)

\* a step that changes a label input
LabelInputWritten ==
    \/ current_weight_var' # current_weight_var
    \/ label_inputs' # label_inputs

\* C37: one job at most is pending (preview_update_job holds one handle and
\* request_preview_update makes none while it holds one); after a step that
\* writes a label input a job is pending, and a pending job runs or is
\* cancelled by on_close; while the application is open, on_close does not
\* run and no job is pending, the cached label image shows the current
\* values.
RebuildFollowsEveryWrite ==
    /\ []((~closed /\ ~Closing /\ ~preview_update_job) => ImageCurrent)
    /\ [][LabelInputWritten => preview_update_job']_vars
    /\ (preview_update_job ~> ~preview_update_job)

-----------------------------------------------------------------------------
(* Properties of the serial handle *)

\* the positions of the worker inside the try statement of the read loop
InReadLoop == wpc \in {"inner", "continue", "read", "after_live", "after_error"}

\* C38: the worker holds no open serial handle when it begins a call of
\* open_scale_serial, so it never holds more than the one handle of the
\* last call; and every step that leaves the read loop, after a read error,
\* because the stop flag is set or with an exception, closes the handle.
HandleClosedBeforeNextOpen ==
    /\ [](wpc = "open" => ~ser_open)
    /\ [][(InReadLoop /\ ~InReadLoop') => (ser_open /\ ~ser_open')]_vars

\* the connection was reported, the read loop has ended with a read error
\* whose report still waits, and the worker is about to open the port again
WitnessHandleClosedBeforeNextOpen ==
    /\ wpc = "open"
    /\ ~ser_open
    /\ scale_status_var = "connected"
    /\ queue = <<OfflineEvent>>

====
